---------------------------- MODULE Spec2Model ----------------------------
(***************************************************************************)
(* Timelapse-X: the StateManager singleton (state_manager.py), the one     *)
(* authoritative recording state of the add-on, and the code around it.    *)
(*                                                                         *)
(* Every public method of StateManager runs its body under the class-level *)
(* RLock (`with self._lock`).  In the specifications below a call is one   *)
(* atomic action, and each specification is a client that calls the        *)
(* methods its properties are about:                                       *)
(*   Spec          the recording lifecycle and the session fields          *)
(*   SpecAsync     the window async flag                                   *)
(*   SpecSched     the camera schedulers across start/stop                 *)
(*   SpecGuard     the fields start_recording assigns                      *)
(*   SpecReset     reset() after every kind of field has been set          *)
(*   SpecRR        round-robin polling of a camera list                    *)
(*   SpecInit      capture/scheduler.py init_camera_schedulers, call by    *)
(*                 call, beside a polling thread                           *)
(*   SpecOperator  the start/stop operator (operators/recording.py)        *)
(* SpecConc executes the same method bodies statement by statement in      *)
(* several threads that contend for the lock, which is what justifies the  *)
(* atomic actions of the others.  Two more specifications stand beside     *)
(* the StateManager:                                                       *)
(*   SpecInterval  compute_min_timer_interval (capture/scheduler.py)       *)
(*   SpecQueue     thread_safety.py: is_main_thread and MainThreadQueue    *)
(* MainThreadQueue has one client per concern, each starting from the      *)
(* state of SpecQueue:                                                     *)
(*   SpecDrain     the order in which process_tasks takes tasks            *)
(*   SpecNested    enqueue called from the main thread, tasks included     *)
(*   SpecWait      a waiting enqueue against its timeout                   *)
(*   SpecExpiry    tasks that outlive their timeout in the queue           *)
(*   SpecResult    what becomes of every enqueued task                     *)
(*   SpecAffinity  process_tasks and clear called from any thread          *)
(*   SpecFailure   queued actions that raise while the host drains         *)
(* and the window capture has its own:                                     *)
(*   SpecCapture   capture/window.py: the timer, its callback, cancel      *)
(*   SpecPending   a request from schedule to finish, with a fair host     *)
(* The operators are driven as the host drives them:                       *)
(*   SpecTick      TLX_OT_record.modal on each TIMER event, both modes     *)
(*   SpecSession   start, stop, pause, interval update, force reset and    *)
(*                 unregister against the host timer and the scene flag    *)
(*   SpecForceReset  force reset beside a MainThreadQueue in use           *)
(*   SpecFrames    the files a WINDOW session writes, by folder and index  *)
(*                                                                         *)
(* Times are time.time() readings, modelled as whole seconds; the clock    *)
(* `now` is strictly positive (seconds since the epoch) and never runs     *)
(* backwards.  The float 0.0 is the integer 0.  Python's None is the       *)
(* string "None" where a handle is expected.  SpecInterval alone counts    *)
(* in tenths of a second.                                                  *)
(***************************************************************************)
EXTENDS Integers, Sequences, FiniteSets, TLC

(* ------------------------------ bounds --------------------------------- *)
\* the clock runs from 1 to MaxTime
MaxTime == 2
\* mark_captured is offered while the frame counter is below MaxFrames
MaxFrames == 2
\* update_camera_due is offered while a camera's total_captures is below it
MaxCaptures == 1
\* number of worker threads of SpecConc
NumThreads == 2
\* operations each thread of SpecConc starts at most
MaxOps == 2
\* background threads of SpecQueue, beside the host's main thread
NumWorkers == 1
\* tasks MainThreadQueue creates at most (its _task_counter)
MaxTasks == 3

(* ------------------------------ inputs --------------------------------- *)
Modes == {"WINDOW", "CAMERA_LIST"}
SessionDirs == {"/out/s1", "/out/s2"}
TimerHandles == {"timer1"}
CameraNames == {"CamA", "CamB"}
Intervals == {1, 2}
Delays == {0, 1}
\* set_suppression(milliseconds): whole seconds keep milliseconds / 1000.0 exact
SuppressMs == {1000}
StartIndexes == {0, 1}
ImagePaths == {"/out/s1/0000.png"}
CameraLists == {<<>>, <<"CamA", "CamB">>}
\* SpecInit: scene.tlx_cameras, every item a camera object
SceneCameras == <<"CamA", "CamB">>
\* SpecRR: the camera list of a three-camera session, and a shorter one
RRCameras == <<"CamA", "CamB", "CamC">>
RRLists == {<<>>, RRCameras, <<"CamC", "CamA">>}

(* RecordingState enum *)
IDLE == "idle"
RECORDING == "recording"
PAUSED == "paused"
RecordingState == {IDLE, RECORDING, PAUSED}

NoneVal == "None"
\* threads are numbered from 1; an unowned RLock has owner 0
NoOwner == 0
EmptyDict == [n \in {} |-> NoneVal]

VARIABLES
    mgr,       \* the fields of the StateManager instance
    now,       \* time.time()
    lastOp,    \* observer: name of the method called by the last step
    ret,       \* observer: what that call returned or raised
    hist,      \* observer: what the call history implies (see Observe*)
    pc, lock, reg, snap, ops,  \* SpecConc: threads, the RLock, locals
    obs,       \* SpecRR: observer of the round-robin calls (see Watch*)
    job,       \* SpecInit: position inside init_camera_schedulers
    prefs,     \* SpecInterval: the arguments of compute_min_timer_interval
    scene,     \* SpecOperator: scene.tlx_is_recording and the host timer
    main_thread_id,  \* thread_safety._MAIN_THREAD_ID
    task_queue,      \* MainThreadQueue: _queue (the heap) and _task_counter
    ran,             \* observer: the threads that have executed an action
    qlog,            \* observer: the tasks taken off the queue, in order
    tpc,             \* SpecQueue: position of each thread
    capture          \* SpecCapture: the host's timers and _capture_callback

vars == <<mgr, now, lastOp, ret, hist, pc, lock, reg, snap, ops,
          obs, job, prefs, scene, main_thread_id, task_queue, ran,
          qlog, tpc, capture>>
concVars == <<pc, lock, reg, snap, ops>>
queueVars == <<main_thread_id, task_queue, ran, qlog, tpc>>
extVars == <<obs, job, prefs, scene, queueVars, capture>>

(* ------------------------- call results -------------------------------- *)
RetNone == [kind |-> "None", val |-> 0, list |-> <<>>]
RetBool(b) == [kind |-> "bool", val |-> IF b THEN 1 ELSE 0, list |-> <<>>]
RetInt(n) == [kind |-> "int", val |-> n, list |-> <<>>]
RetList(l) == [kind |-> "list", val |-> 0, list |-> l]
Raise(exc) == [kind |-> exc, val |-> 0, list |-> <<>>]

(* ------------------------- CameraScheduler ----------------------------- *)
NewCameraScheduler(camera_name, interval, start_index, t) ==
    [camera_name |-> camera_name, interval |-> interval, next_due |-> t,
     last_capture |-> 0, total_captures |-> start_index]

is_due(s, t) == t >= s.next_due

\* slip: the next due time is the capture time itself
SchedulerMarkCapturedNoDelay(s, t) ==
    [s EXCEPT !.last_capture = t, !.next_due = t,
              !.total_captures = s.total_captures + 1]
SchedulerMarkCaptured(s, t) ==
    [s EXCEPT !.last_capture = t, !.next_due = t + s.interval,
              !.total_captures = s.total_captures + 1]

(* ------------------------- StateManager.__init__ ----------------------- *)
InitMgr ==
    [state |-> IDLE, capture_mode |-> "", session_dir |-> "", counter |-> 0,
     start_time |-> 0, last_capture_time |-> 0, timer |-> NoneVal,
     last_window_image |-> "", window_async_pending |-> FALSE,
     window_async_scheduled_time |-> 0, camera_schedulers |-> EmptyDict,
     rr_index |-> 0, dirty |-> TRUE, ignore_depsgraph |-> FALSE,
     handler_installed |-> FALSE, suppress_until |-> 0]

(* A method body is the sequence of its field assignments, in source order. *)
RECURSIVE ApplyWrites(_, _)
ApplyWrites(m, ws) ==
    IF ws = <<>> THEN m
    ELSE ApplyWrites([m EXCEPT ![Head(ws)[1]] = Head(ws)[2]], Tail(ws))

(* recording property *)
\* slip: only the Recording state counts as recording
recordingNotPaused(m) == m.state = RECORDING
recording(m) == m.state # IDLE

(* paused property *)
paused(m) == m.state = PAUSED

(* start_recording: the guard and the assignments after it *)
\* slip: the check forgets the Paused state
StartRejectedOnlyRecording(m) == m.state = RECORDING
StartRejected(m) == m.state # IDLE

\* slip: the session directory of the previous session is kept
StartWritesKeepDir(mode, session_dir, t) ==
    << <<"state", RECORDING>>, <<"capture_mode", mode>>, <<"counter", 0>>,
       <<"start_time", t>>, <<"last_capture_time", 0>>,
       <<"dirty", TRUE>>, <<"last_window_image", "">>,
       <<"rr_index", 0>>, <<"suppress_until", 0>>,
       <<"window_async_pending", FALSE>> >>
StartWrites(mode, session_dir, t) ==
    << <<"state", RECORDING>>, <<"capture_mode", mode>>,
       <<"session_dir", session_dir>>, <<"counter", 0>>,
       <<"start_time", t>>, <<"last_capture_time", 0>>,
       <<"dirty", TRUE>>, <<"last_window_image", "">>,
       <<"rr_index", 0>>, <<"suppress_until", 0>>,
       <<"window_async_pending", FALSE>> >>

(* stop_recording *)
StopSkipped(m) == m.state = IDLE

\* slip: the frame counter outlives the session
StopWritesKeepCounter ==
    << <<"state", IDLE>>, <<"capture_mode", "">>, <<"session_dir", "">>,
       <<"timer", NoneVal>> >>
\* slip: stop also drops the camera schedulers and the handler flag
StopWritesClearSchedulers ==
    << <<"state", IDLE>>, <<"capture_mode", "">>, <<"session_dir", "">>,
       <<"counter", 0>>, <<"timer", NoneVal>>,
       <<"camera_schedulers", EmptyDict>>, <<"handler_installed", FALSE>> >>
StopWrites ==
    << <<"state", IDLE>>, <<"capture_mode", "">>, <<"session_dir", "">>,
       <<"counter", 0>>, <<"timer", NoneVal>> >>

\* stop_recording has no return statement with a value on either path
StopReturn(final_count) == RetNone

(* pause_recording / resume_recording *)
\* slip: pause from any state that is not yet Paused
PauseAppliesNotPaused(m) == m.state # PAUSED
PauseApplies(m) == m.state = RECORDING
PauseWrites == << <<"state", PAUSED>> >>

\* slip: resume from any state that is not Recording
ResumeAppliesNotRecording(m) == m.state # RECORDING
ResumeApplies(m) == m.state = PAUSED
ResumeWrites == << <<"state", RECORDING>> >>

(* mark_captured *)
\* slip: the state check is missing
MarkAppliesAlways(m) == TRUE
MarkApplies(m) == m.state \in {RECORDING, PAUSED}

MarkWrites(old_counter, t) ==
    << <<"counter", old_counter + 1>>, <<"last_capture_time", t>>,
       <<"dirty", FALSE>> >>

(* reset *)
ResetWrites ==
    << <<"state", IDLE>>, <<"capture_mode", "">>, <<"session_dir", "">>,
       <<"counter", 0>>, <<"start_time", 0>>, <<"last_capture_time", 0>>,
       <<"timer", NoneVal>>, <<"last_window_image", "">>,
       <<"window_async_pending", FALSE>>,
       <<"camera_schedulers", EmptyDict>>, <<"rr_index", 0>>,
       <<"dirty", TRUE>>, <<"ignore_depsgraph", FALSE>>,
       <<"handler_installed", FALSE>>, <<"suppress_until", 0>> >>

(* direct setters *)
SetDirtyWrites(value) == << <<"dirty", value>> >>
SetHandlerInstalledWrites(value) == << <<"handler_installed", value>> >>
SetIgnoreDepsgraphWrites(value) == << <<"ignore_depsgraph", value>> >>
SetSuppressionWrites(milliseconds, t) ==
    << <<"suppress_until", t + (milliseconds \div 1000)>> >>
SetTimerWrites(timer) == << <<"timer", timer>> >>
SetLastWindowImageWrites(path) == << <<"last_window_image", path>> >>

is_suppressed(m, t) == t < m.suppress_until

(* window async *)
\* slip: the pending check is missing
ScheduleRejectedNever(m) == FALSE
ScheduleRejected(m) == m.window_async_pending

ScheduleWrites(delay, t) ==
    << <<"window_async_pending", TRUE>>,
       <<"window_async_scheduled_time", t + delay>> >>

\* slip: finish leaves the flag as it was
FinishKeepsPending == << >>
FinishWrites == << <<"window_async_pending", FALSE>> >>

CancelSkipped(m) == ~m.window_async_pending
CancelWrites == << <<"window_async_pending", FALSE>> >>

(* camera schedulers *)
\* `scheduler = self._camera_schedulers.get(name)` followed by `if scheduler`
HasScheduler(m, name) == name \in DOMAIN m.camera_schedulers
DictPut(d, k, v) == [n \in DOMAIN d \cup {k} |-> IF n = k THEN v ELSE d[n]]

ClearSchedulersWrites ==
    << <<"camera_schedulers", EmptyDict>>, <<"rr_index", 0>> >>

InitSchedulerWrites(m, camera_name, interval, start_index, t) ==
    << <<"camera_schedulers",
         DictPut(m.camera_schedulers, camera_name,
                 NewCameraScheduler(camera_name, interval, start_index, t))>> >>

UpdateDueWrites(m, camera_name, t) ==
    IF ~HasScheduler(m, camera_name)
    THEN <<>>
    ELSE << <<"camera_schedulers",
              DictPut(m.camera_schedulers, camera_name,
                      SchedulerMarkCaptured(m.camera_schedulers[camera_name], t))>> >>

CameraDue(m, name, t) ==
    /\ HasScheduler(m, name)
    /\ is_due(m.camera_schedulers[name], t)

\* round-robin branch: offsets 0..len-1 from rr_index, first due camera wins;
\* the result is <<>> or <<idx>> with idx the 0-based position found
\* slip: the scan starts at the head of the list, not at rr_index
RECURSIVE RoundRobinScanFromHead(_, _, _, _)
RoundRobinScanFromHead(m, camera_names, offset, t) ==
    IF offset >= Len(camera_names) THEN <<>>
    ELSE LET idx == offset % Len(camera_names)
         IN IF CameraDue(m, camera_names[idx + 1], t)
            THEN <<idx>>
            ELSE RoundRobinScanFromHead(m, camera_names, offset + 1, t)
RECURSIVE RoundRobinScan(_, _, _, _)
RoundRobinScan(m, camera_names, offset, t) ==
    IF offset >= Len(camera_names) THEN <<>>
    ELSE LET idx == (m.rr_index + offset) % Len(camera_names)
         IN IF CameraDue(m, camera_names[idx + 1], t)
            THEN <<idx>>
            ELSE RoundRobinScan(m, camera_names, offset + 1, t)

\* the other branch: every due camera, in input order
RECURSIVE AllDue(_, _, _)
AllDue(m, camera_names, t) ==
    IF camera_names = <<>> THEN <<>>
    ELSE (IF CameraDue(m, Head(camera_names), t)
          THEN <<Head(camera_names)>> ELSE <<>>)
         \o AllDue(m, Tail(camera_names), t)

GetDueResult(m, camera_names, round_robin, t) ==
    IF camera_names = <<>> THEN <<>>
    ELSE IF round_robin
         THEN LET hit == RoundRobinScan(m, camera_names, 0, t)
              IN IF hit = <<>> THEN <<>> ELSE <<camera_names[hit[1] + 1]>>
         ELSE AllDue(m, camera_names, t)

\* slip: the index moves two places past the camera found
GetDueWritesSkip(m, camera_names, round_robin, t) ==
    IF camera_names = <<>> \/ ~round_robin THEN <<>>
    ELSE LET hit == RoundRobinScan(m, camera_names, 0, t)
         IN IF hit = <<>> THEN <<>>
            ELSE << <<"rr_index", (hit[1] + 2) % Len(camera_names)>> >>
\* slip: the index stays on the camera found
GetDueWritesStay(m, camera_names, round_robin, t) ==
    IF camera_names = <<>> \/ ~round_robin THEN <<>>
    ELSE LET hit == RoundRobinScan(m, camera_names, 0, t)
         IN IF hit = <<>> THEN <<>>
            ELSE << <<"rr_index", hit[1] % Len(camera_names)>> >>
GetDueWrites(m, camera_names, round_robin, t) ==
    IF camera_names = <<>> \/ ~round_robin THEN <<>>
    ELSE LET hit == RoundRobinScan(m, camera_names, 0, t)
         IN IF hit = <<>> THEN <<>>
            ELSE << <<"rr_index", (hit[1] + 1) % Len(camera_names)>> >>

(* get_info: the keys of the returned dict, in the order they are read *)
InfoKeys ==
    <<"state", "recording", "paused", "mode", "session", "counter", "dirty",
      "timer", "cameras">>

InfoValue(m, key) ==
    CASE key = "state" -> m.state
      [] key = "recording" -> recording(m)
      [] key = "paused" -> paused(m)
      [] key = "mode" -> m.capture_mode
      [] key = "session" -> m.session_dir
      [] key = "counter" -> m.counter
      [] key = "dirty" -> m.dirty
      [] key = "timer" -> m.timer # NoneVal
      [] key = "cameras" -> Cardinality(DOMAIN m.camera_schedulers)

get_info(m) == [i \in 1..Len(InfoKeys) |-> InfoValue(m, InfoKeys[i])]

(* ------------------------- observer ------------------------------------ *)
(* The observer sees only calls and their results, never the fields: a     *)
(* session opens when start_recording returns normally, closes when        *)
(* stop_recording or reset is called, and `marks` counts the mark_captured *)
(* calls made while it is open.  `requests` counts the async requests that *)
(* schedule_window_async accepted and that no finish_window_capture or     *)
(* cancel_window_async call has followed; it saturates at 2, "several".     *)
NoSession == [open |-> FALSE, marks |-> 0, mode |-> "", dir |-> "", requests |-> 0]

ObserveStart(s, r, mode, session_dir) ==
    IF r = RetNone
    THEN [s EXCEPT !.open = TRUE, !.marks = 0, !.mode = mode, !.dir = session_dir]
    ELSE s
ObserveClose(s) == [NoSession EXCEPT !.requests = s.requests]
ObserveSchedule(s, r) ==
    IF r = RetBool(TRUE)
    THEN [s EXCEPT !.requests = IF s.requests >= 2 THEN 2 ELSE s.requests + 1]
    ELSE s
ObserveFinish(s) == [s EXCEPT !.requests = 0]
ObserveMark(s) == IF s.open THEN [s EXCEPT !.marks = s.marks + 1] ELSE s

Called(op, r) == lastOp' = op /\ ret' = r

(* ------------------------- Spec: atomic methods ------------------------ *)
\* thread_safety._MAIN_THREAD_ID = None before anything initialises it
NoMainThread == 0

\* the parts of the state the StateManager clients below leave alone
NoWatch ==
    [list |-> <<>>, arg |-> "", run |-> <<>>, from |-> 0,
     wait |-> [c \in {RRCameras[i] : i \in DOMAIN RRCameras} |-> 0], scen |-> 0]
NoJob == [phase |-> "idle", i |-> 0, old |-> {}]
NoPrefs == [default_interval |-> 0, cameras |-> <<>>]
NoScene == [tlx_is_recording |-> FALSE, timer |-> NoneVal]
\* MainThreadQueue.__init__: an empty PriorityQueue, _task_counter = 0
NoTasks == [queue |-> <<>>, task_counter |-> 0]
\* no timer registered, no callback running, nothing saved yet; `dir` is
\* the base_dir of the callback that is running, `files` the frame files
\* written so far as <<directory, index>>
NoCapture == [timers |-> <<>>, at |-> "idle", stale |-> FALSE, saved |-> 0,
              outcome |-> "", dir |-> "", files |-> {}]

ExtInit ==
    /\ obs = NoWatch
    /\ job = NoJob
    /\ prefs = NoPrefs
    /\ scene = NoScene
    /\ main_thread_id = NoMainThread
    /\ task_queue = NoTasks
    /\ ran = {} /\ qlog = <<>>
    /\ tpc = <<>>
    /\ capture = NoCapture

Init ==
    /\ mgr = InitMgr
    /\ now = 1
    /\ lastOp = "init" /\ ret = RetNone
    /\ hist = NoSession
    /\ pc = [t \in {} |-> "idle"] /\ lock = [owner |-> NoOwner, count |-> 0]
    /\ reg = [t \in {} |-> 0] /\ snap = [t \in {} |-> 0] /\ ops = [t \in {} |-> 0]
    /\ ExtInit

\* the wall clock advances between calls
TickStep ==
    /\ now < MaxTime
    /\ now' = now + 1
    /\ Called("tick", RetNone)
    /\ UNCHANGED <<mgr, hist, concVars>>

Tick == TickStep /\ UNCHANGED extVars

start_recording(mode, session_dir) ==
    /\ IF StartRejected(mgr)
       THEN /\ mgr' = mgr
            /\ Called("start_recording", Raise("RuntimeError"))
            /\ hist' = ObserveStart(hist, Raise("RuntimeError"), mode, session_dir)
       ELSE /\ mgr' = ApplyWrites(mgr, StartWrites(mode, session_dir, now))
            /\ Called("start_recording", RetNone)
            /\ hist' = ObserveStart(hist, RetNone, mode, session_dir)
    /\ UNCHANGED <<now, concVars, extVars>>

stop_recording ==
    /\ IF StopSkipped(mgr)
       THEN /\ mgr' = mgr
            /\ Called("stop_recording", RetNone)
       ELSE /\ mgr' = ApplyWrites(mgr, StopWrites)
            /\ Called("stop_recording", StopReturn(mgr.counter))
    /\ hist' = ObserveClose(hist)
    /\ UNCHANGED <<now, concVars, extVars>>

pause_recording ==
    /\ mgr' = IF PauseApplies(mgr) THEN ApplyWrites(mgr, PauseWrites) ELSE mgr
    /\ Called("pause_recording", RetNone)
    /\ UNCHANGED <<now, hist, concVars, extVars>>

resume_recording ==
    /\ mgr' = IF ResumeApplies(mgr) THEN ApplyWrites(mgr, ResumeWrites) ELSE mgr
    /\ Called("resume_recording", RetNone)
    /\ UNCHANGED <<now, hist, concVars, extVars>>

mark_captured ==
    /\ mgr.counter < MaxFrames
    /\ mgr' = IF MarkApplies(mgr)
              THEN ApplyWrites(mgr, MarkWrites(mgr.counter, now))
              ELSE mgr
    /\ Called("mark_captured", RetNone)
    /\ hist' = ObserveMark(hist)
    /\ UNCHANGED <<now, concVars, extVars>>

reset ==
    /\ mgr' = ApplyWrites(mgr, ResetWrites)
    /\ Called("reset", RetNone)
    /\ hist' = ObserveClose(hist)
    /\ UNCHANGED <<now, concVars, extVars>>

set_dirty(value) ==
    /\ mgr' = ApplyWrites(mgr, SetDirtyWrites(value))
    /\ Called("set_dirty", RetNone)
    /\ UNCHANGED <<now, hist, concVars, extVars>>

set_handler_installed(value) ==
    /\ mgr' = ApplyWrites(mgr, SetHandlerInstalledWrites(value))
    /\ Called("set_handler_installed", RetNone)
    /\ UNCHANGED <<now, hist, concVars, extVars>>

set_suppression(milliseconds) ==
    /\ mgr' = ApplyWrites(mgr, SetSuppressionWrites(milliseconds, now))
    /\ Called("set_suppression", RetNone)
    /\ UNCHANGED <<now, hist, concVars, extVars>>

set_timer(timer) ==
    /\ mgr' = ApplyWrites(mgr, SetTimerWrites(timer))
    /\ Called("set_timer", RetNone)
    /\ UNCHANGED <<now, hist, concVars, extVars>>

set_last_window_image(path) ==
    /\ mgr' = ApplyWrites(mgr, SetLastWindowImageWrites(path))
    /\ Called("set_last_window_image", RetNone)
    /\ UNCHANGED <<now, hist, concVars, extVars>>

schedule_window_async(delay) ==
    /\ IF ScheduleRejected(mgr)
       THEN /\ mgr' = mgr
            /\ Called("schedule_window_async", RetBool(FALSE))
            /\ hist' = ObserveSchedule(hist, RetBool(FALSE))
       ELSE /\ mgr' = ApplyWrites(mgr, ScheduleWrites(delay, now))
            /\ Called("schedule_window_async", RetBool(TRUE))
            /\ hist' = ObserveSchedule(hist, RetBool(TRUE))
    /\ UNCHANGED <<now, concVars, extVars>>

start_window_capture ==
    /\ mgr' = mgr
    /\ Called("start_window_capture", RetNone)
    /\ UNCHANGED <<now, hist, concVars, extVars>>

finish_window_capture(success) ==
    /\ mgr' = ApplyWrites(mgr, FinishWrites)
    /\ Called("finish_window_capture", RetNone)
    /\ hist' = ObserveFinish(hist)
    /\ UNCHANGED <<now, concVars, extVars>>

cancel_window_async ==
    /\ IF CancelSkipped(mgr)
       THEN /\ mgr' = mgr
            /\ Called("cancel_window_async", RetBool(FALSE))
       ELSE /\ mgr' = ApplyWrites(mgr, CancelWrites)
            /\ Called("cancel_window_async", RetBool(TRUE))
    /\ hist' = ObserveFinish(hist)
    /\ UNCHANGED <<now, concVars, extVars>>

clear_camera_schedulers ==
    /\ mgr' = ApplyWrites(mgr, ClearSchedulersWrites)
    /\ Called("clear_camera_schedulers", RetNone)
    /\ UNCHANGED <<now, hist, concVars, extVars>>

InitSchedulerStep(camera_name, interval, start_index) ==
    /\ mgr' = ApplyWrites(mgr, InitSchedulerWrites(mgr, camera_name, interval,
                                                  start_index, now))
    /\ Called("init_camera_scheduler", RetNone)
    /\ UNCHANGED <<now, hist, concVars>>

init_camera_scheduler(camera_name, interval, start_index) ==
    InitSchedulerStep(camera_name, interval, start_index) /\ UNCHANGED extVars

GetDueStep(camera_names, round_robin) ==
    /\ mgr' = ApplyWrites(mgr, GetDueWrites(mgr, camera_names, round_robin, now))
    /\ Called("get_due_cameras", RetList(GetDueResult(mgr, camera_names, round_robin, now)))
    /\ UNCHANGED <<now, hist, concVars>>

get_due_cameras(camera_names, round_robin) ==
    GetDueStep(camera_names, round_robin) /\ UNCHANGED extVars

UpdateDueStep(camera_name) ==
    /\ \A n \in DOMAIN mgr.camera_schedulers :
           mgr.camera_schedulers[n].total_captures < MaxCaptures
    /\ mgr' = ApplyWrites(mgr, UpdateDueWrites(mgr, camera_name, now))
    /\ Called("update_camera_due", RetNone)
    /\ UNCHANGED <<now, hist, concVars>>

update_camera_due(camera_name) ==
    UpdateDueStep(camera_name) /\ UNCHANGED extVars

(* Every specification below is a client of the one StateManager; each    *)
(* offers the methods that read or write the fields its properties are     *)
(* about.                                                                  *)

\* Spec: the recording lifecycle and the session fields
Next ==
    \/ Tick
    \/ \E mode \in Modes, d \in SessionDirs : start_recording(mode, d)
    \/ stop_recording
    \/ pause_recording
    \/ resume_recording
    \/ mark_captured
    \/ reset
    \/ \E v \in BOOLEAN : set_dirty(v)
    \/ \E h \in TimerHandles : set_timer(h)

Spec == Init /\ [][Next]_vars

\* SpecAsync: the window async controller, driven by schedule, begin, finish
\* and cancel only, with the setters a capture calls in between
NextAsync ==
    \/ Tick
    \/ \E d \in Delays : schedule_window_async(d)
    \/ start_window_capture
    \/ \E ok \in BOOLEAN : finish_window_capture(ok)
    \/ cancel_window_async
    \/ \E img \in ImagePaths : set_last_window_image(img)
    \/ \E ms \in SuppressMs : set_suppression(ms)

SpecAsync == Init /\ [][NextAsync]_vars

\* SpecSched: the camera schedulers and the handler flag across start/stop
NextSched ==
    \/ Tick
    \/ \E d \in SessionDirs : start_recording("CAMERA_LIST", d)
    \/ stop_recording
    \/ pause_recording
    \/ \E v \in BOOLEAN : set_handler_installed(v)
    \/ clear_camera_schedulers
    \/ \E c \in CameraNames, i \in Intervals, k \in StartIndexes :
          init_camera_scheduler(c, i, k)
    \/ \E l \in CameraLists, rr \in BOOLEAN : get_due_cameras(l, rr)
    \/ \E c \in CameraNames : update_camera_due(c)

SpecSched == Init /\ [][NextSched]_vars

\* SpecGuard: every field start_recording assigns, set to a non-initial value
NextGuard ==
    \/ Tick
    \/ \E mode \in Modes : start_recording(mode, "/out/s1")
    \/ stop_recording
    \/ pause_recording
    \/ resume_recording
    \/ mark_captured
    \/ \E ms \in SuppressMs : set_suppression(ms)
    \/ schedule_window_async(1)
    \/ init_camera_scheduler("CamA", 1, 0)
    \/ get_due_cameras(<<"CamA", "CamB">>, TRUE)

SpecGuard == Init /\ [][NextGuard]_vars

(* ------------------------- SpecConc: threads and the RLock ------------- *)
(* Each method is `with self._lock:` around its body; a thread executes    *)
(* one statement per step.  `self._counter += 1` is a read followed by a   *)
(* write.  The properties `recording` and `paused` read inside get_info    *)
(* take the lock again, which the owner of a reentrant lock may do.        *)
Threads == 1..NumThreads

\* RLock.acquire: free, or already held by the calling thread
\* slip: the method body is not under the lock
CanAcquireUnlocked(l, t) == TRUE
CanAcquire(l, t) == l.owner = NoOwner \/ l.owner = t

Acquire(l, t) == [owner |-> t, count |-> l.count + 1]

\* RLock.release
Release(l, t) ==
    IF l.count <= 1 THEN [owner |-> NoOwner, count |-> 0]
    ELSE [l EXCEPT !.count = l.count - 1]

Idle == [op |-> "idle", phase |-> "idle", i |-> 0, mode |-> "", dir |-> ""]
At(op, phase, i, mode, dir) ==
    [op |-> op, phase |-> phase, i |-> i, mode |-> mode, dir |-> dir]
Goto(t, phase, i) == pc' = [pc EXCEPT ![t].phase = phase, ![t].i = i]

InitConc ==
    /\ mgr = InitMgr
    /\ now = 1
    /\ lastOp = "init" /\ ret = RetNone
    /\ hist = NoSession
    /\ pc = [t \in Threads |-> Idle]
    /\ lock = [owner |-> NoOwner, count |-> 0]
    /\ reg = [t \in Threads |-> 0]
    /\ snap = [t \in Threads |-> <<>>]
    /\ ops = [t \in Threads |-> 0]
    /\ ExtInit

TickConc ==
    /\ now < MaxTime
    /\ now' = now + 1
    /\ UNCHANGED <<mgr, lastOp, ret, hist, concVars, extVars>>

\* a thread calls a method and enters its `with self._lock`
Call(t, op, mode, dir) ==
    /\ pc[t] = Idle
    /\ ops[t] < MaxOps
    /\ CanAcquire(lock, t)
    /\ lock' = Acquire(lock, t)
    /\ pc' = [pc EXCEPT ![t] = At(op, "check", 0, mode, dir)]
    /\ ops' = [ops EXCEPT ![t] = ops[t] + 1]
    /\ UNCHANGED <<mgr, now, lastOp, ret, hist, reg, snap, extVars>>

\* the assignments of the method a thread is in
WritesOf(p, r, t) ==
    CASE p.op = "start_recording" -> StartWrites(p.mode, p.dir, t)
      [] p.op = "stop_recording" -> StopWrites
      [] p.op = "mark_captured" -> MarkWrites(r, t)
      [] p.op = "reset" -> ResetWrites
      [] OTHER -> <<>>

\* the method's first statement: its state check, or its first read
Check(t) ==
    /\ pc[t].phase = "check"
    /\ CASE pc[t].op = "start_recording" ->
              IF StartRejected(mgr)
              THEN Goto(t, "raise", 0) /\ UNCHANGED reg
              ELSE Goto(t, "write", 1) /\ UNCHANGED reg
         [] pc[t].op = "stop_recording" ->
              IF StopSkipped(mgr)
              THEN Goto(t, "release", 0) /\ UNCHANGED reg
              ELSE Goto(t, "write", 1) /\ reg' = [reg EXCEPT ![t] = mgr.counter]
         [] pc[t].op = "mark_captured" ->
              IF MarkApplies(mgr)
              THEN Goto(t, "read", 0) /\ UNCHANGED reg
              ELSE Goto(t, "release", 0) /\ UNCHANGED reg
         [] pc[t].op = "reset" -> Goto(t, "write", 1) /\ UNCHANGED reg
         [] pc[t].op = "get_info" -> Goto(t, "info", 1) /\ UNCHANGED reg
    /\ UNCHANGED <<mgr, now, lastOp, ret, hist, lock, snap, ops, extVars>>

\* mark_captured: the load of self._counter
ReadCounter(t) ==
    /\ pc[t].phase = "read"
    /\ reg' = [reg EXCEPT ![t] = mgr.counter]
    /\ Goto(t, "write", 1)
    /\ UNCHANGED <<mgr, now, lastOp, ret, hist, lock, snap, ops, extVars>>

\* one field assignment
Write(t) ==
    /\ pc[t].phase = "write"
    /\ LET ws == WritesOf(pc[t], reg[t], now)
       IN /\ mgr' = ApplyWrites(mgr, <<ws[pc[t].i]>>)
          /\ IF pc[t].i = Len(ws)
             THEN Goto(t, "release", 0)
             ELSE Goto(t, "write", pc[t].i + 1)
    /\ UNCHANGED <<now, lastOp, ret, hist, lock, reg, snap, ops, extVars>>

\* get_info: one entry of the dict literal
InfoRead(t) ==
    /\ pc[t].phase = "info"
    /\ LET key == InfoKeys[pc[t].i]
       IN /\ key \in {"recording", "paused"} => CanAcquire(lock, t)
          /\ snap' = [snap EXCEPT ![t] =
                         IF pc[t].i = 1 THEN <<InfoValue(mgr, key)>>
                         ELSE Append(snap[t], InfoValue(mgr, key))]
    /\ IF pc[t].i = Len(InfoKeys)
       THEN Goto(t, "release", 0)
       ELSE Goto(t, "info", pc[t].i + 1)
    /\ UNCHANGED <<mgr, now, lastOp, ret, hist, lock, reg, ops, extVars>>

\* leaving the `with` block, by return or by the RuntimeError
Return(t) ==
    /\ pc[t].phase \in {"release", "raise"}
    /\ lock' = Release(lock, t)
    /\ pc' = [pc EXCEPT ![t] = Idle]
    /\ lastOp' = pc[t].op
    /\ ret' = CASE pc[t].phase = "raise" -> Raise("RuntimeError")
                [] pc[t].op = "stop_recording" /\ pc[t].i = 0 -> RetNone
                [] pc[t].op = "stop_recording" -> StopReturn(reg[t])
                [] pc[t].op = "get_info" -> RetList(snap[t])
                [] OTHER -> RetNone
    /\ hist' =
         CASE pc[t].op = "start_recording" ->
                ObserveStart(hist,
                             IF pc[t].phase = "raise" THEN Raise("RuntimeError")
                             ELSE RetNone, pc[t].mode, pc[t].dir)
           [] pc[t].op \in {"stop_recording", "reset"} -> ObserveClose(hist)
           [] pc[t].op = "mark_captured" -> ObserveMark(hist)
           [] OTHER -> hist
    \* the method's locals end with the call
    /\ reg' = [reg EXCEPT ![t] = 0]
    /\ snap' = [snap EXCEPT ![t] = <<>>]
    /\ UNCHANGED <<mgr, now, ops, extVars>>

NextConc ==
    \/ TickConc
    \/ \E t \in Threads : Call(t, "start_recording", "WINDOW", "/out/s1")
    \/ \E t \in Threads : Call(t, "stop_recording", "", "")
    \/ \E t \in Threads : Call(t, "mark_captured", "", "")
    \/ \E t \in Threads : Call(t, "reset", "", "")
    \/ \E t \in Threads : Call(t, "get_info", "", "")
    \/ \E t \in Threads : Check(t)
    \/ \E t \in Threads : ReadCounter(t)
    \/ \E t \in Threads : Write(t)
    \/ \E t \in Threads : InfoRead(t)
    \/ \E t \in Threads : Return(t)

SpecConc == InitConc /\ [][NextConc]_vars

\* SpecReset: reset called after every kind of field has been set
NextReset ==
    \/ Tick
    \/ \E mode \in Modes : start_recording(mode, "/out/s1")
    \/ pause_recording
    \/ mark_captured
    \/ \E h \in TimerHandles : set_timer(h)
    \/ \E d \in Delays : schedule_window_async(d)
    \/ init_camera_scheduler("CamA", 1, 0)
    \/ set_handler_installed(TRUE)
    \/ \E ms \in SuppressMs : set_suppression(ms)
    \/ reset

SpecReset == Init /\ [][NextReset]_vars

(* ------------------------- SpecRR: round-robin polling ----------------- *)
(* A camera-list session polls get_due_cameras(names, round_robin=True)    *)
(* and calls update_camera_due for what it captured.  The step is the      *)
(* StateManager method; `obs` records beside it what a caller can see of   *)
(* the calls: the arguments, the results of the latest polls of the full   *)
(* list made while every camera was due (`run`, starting at position       *)
(* `from`), for each camera the number of polls in a row that found it due *)
(* and returned another (`wait`, "n or more" is n), and the position in    *)
(* the sequence poll / update_camera_due(first camera) / poll with no      *)
(* clock step in between (`scen`).                                         *)
RRCameraSet == {RRCameras[i] : i \in DOMAIN RRCameras}
InList(c, l) == \E i \in DOMAIN l : l[i] = c
AllCamerasDue(m, l, t) == \A i \in DOMAIN l : CameraDue(m, l[i], t)

WatchDue(o, m, l, t, result) ==
    LET n == Len(RRCameras)
        fixed == l = RRCameras
        all == fixed /\ AllCamerasDue(m, l, t)
    IN [list |-> l, arg |-> "",
        run |-> IF ~all THEN <<>>
                ELSE IF Len(o.run) = n THEN Tail(o.run) \o <<result>>
                ELSE o.run \o <<result>>,
        from |-> IF ~all THEN 0
                 ELSE IF o.run = <<>> THEN m.rr_index % n
                 ELSE IF Len(o.run) = n THEN (o.from + 1) % n
                 ELSE o.from,
        wait |-> [c \in RRCameraSet |->
                    IF fixed /\ CameraDue(m, c, t) /\ ~InList(c, result)
                    THEN (IF o.wait[c] >= n THEN n ELSE o.wait[c] + 1)
                    ELSE 0],
        scen |-> IF o.scen = 2 /\ fixed THEN 3
                 ELSE IF all /\ m.rr_index = 0 THEN 1
                 ELSE 0]

WatchDone(o, m, c) ==
    [o EXCEPT !.list = <<>>, !.arg = c,
              !.wait = [x \in RRCameraSet |->
                          IF x = c /\ HasScheduler(m, c) THEN 0 ELSE o.wait[x]],
              !.scen = IF o.scen = 1 /\ c = RRCameras[1] THEN 2 ELSE 0]

WatchOther(o) == [o EXCEPT !.list = <<>>, !.arg = "", !.scen = 0]

rrFrame == <<job, prefs, scene, queueVars, capture>>

watched_tick ==
    TickStep /\ obs' = WatchOther(obs) /\ UNCHANGED rrFrame

\* each camera gets its scheduler once, as init_camera_schedulers does at
\* the start of a session
watched_init_camera_scheduler(camera_name, interval) ==
    /\ ~HasScheduler(mgr, camera_name)
    /\ InitSchedulerStep(camera_name, interval, 0)
    /\ obs' = WatchOther(obs)
    /\ UNCHANGED rrFrame

watched_get_due_cameras(camera_names) ==
    /\ GetDueStep(camera_names, TRUE)
    /\ obs' = WatchDue(obs, mgr, camera_names, now, ret'.list)
    /\ UNCHANGED rrFrame

watched_update_camera_due(camera_name) ==
    /\ UpdateDueStep(camera_name)
    /\ obs' = WatchDone(obs, mgr, camera_name)
    /\ UNCHANGED rrFrame

NextRR ==
    \/ watched_tick
    \/ \E c \in RRCameraSet, i \in Intervals : watched_init_camera_scheduler(c, i)
    \/ \E l \in RRLists : watched_get_due_cameras(l)
    \/ \E c \in RRCameraSet : watched_update_camera_due(c)

SpecRR == Init /\ [][NextRR]_vars

(* ------------------------- SpecInit: init_camera_schedulers ------------ *)
(* capture/scheduler.py init_camera_schedulers calls                       *)
(* StateManager().clear_camera_schedulers() and then, for each camera of   *)
(* the scene, StateManager().init_camera_scheduler(...): each call takes   *)
(* and releases the lock on its own.  `job` is the position of the thread  *)
(* running it; a second thread polls and marks captures in between.  The   *)
(* interval of a camera is its override or the default, in whole seconds,  *)
(* which max(MIN_INTERVAL, interval) leaves as it is; start_index is the   *)
(* number of images found in the camera's directory.                       *)
SceneCameraSet == {SceneCameras[i] : i \in DOMAIN SceneCameras}

initFrame == <<obs, prefs, scene, queueVars, capture>>

\* line 28: StateManager().clear_camera_schedulers()
init_camera_schedulers_clear ==
    /\ job.phase = "idle"
    /\ mgr' = ApplyWrites(mgr, ClearSchedulersWrites)
    /\ Called("clear_camera_schedulers", RetNone)
    /\ job' = [phase |-> "loop", i |-> 1, old |-> DOMAIN mgr.camera_schedulers]
    /\ UNCHANGED <<now, hist, concVars, initFrame>>

\* lines 41-77: one iteration of `for camera_item in scene.tlx_cameras`
init_camera_schedulers_camera(interval, start_index) ==
    /\ job.phase = "loop" /\ job.i <= Len(SceneCameras)
    /\ InitSchedulerStep(SceneCameras[job.i], interval, start_index)
    /\ job' = [job EXCEPT !.i = job.i + 1]
    /\ UNCHANGED initFrame

\* the loop is over and the function returns
init_camera_schedulers_return ==
    /\ job.phase = "loop" /\ job.i > Len(SceneCameras)
    /\ job' = NoJob
    /\ Called("init_camera_schedulers", RetNone)
    /\ UNCHANGED <<mgr, now, hist, concVars, initFrame>>

NextInit ==
    \/ Tick
    \/ init_camera_schedulers_clear
    \/ \E i \in Intervals, k \in StartIndexes : init_camera_schedulers_camera(i, k)
    \/ init_camera_schedulers_return
    \/ \E l \in CameraLists, rr \in BOOLEAN : get_due_cameras(l, rr)
    \/ \E c \in CameraNames : update_camera_due(c)

SpecInit == Init /\ [][NextInit]_vars

(* ------------------------- SpecOperator: TLX_OT_record ----------------- *)
(* operators/recording.py: the start/stop operator, which runs on the      *)
(* host's main thread, so its StateManager calls follow each other with    *)
(* nothing in between.  The host's validations (scene, mode, session       *)
(* folder, interval) pass; wm.event_timer_add may fail (timer_ok);         *)
(* prefs.capture_immediate_on_start is off, captures being the actions of  *)
(* the timer ticks that follow.  The session folder is new, so every       *)
(* camera directory is empty and start_index is 0.                         *)
RetStatus(s) == [kind |-> "status", val |-> 0, list |-> <<s>>]

\* capture/scheduler.py init_camera_schedulers run to its end: the clear,
\* then init_camera_scheduler for the cameras from position i on
RECURSIVE InitCamerasFrom(_, _, _, _)
InitCamerasFrom(m, i, interval, t) ==
    IF i > Len(SceneCameras) THEN m
    ELSE InitCamerasFrom(
             ApplyWrites(m, InitSchedulerWrites(m, SceneCameras[i], interval, 0, t)),
             i + 1, interval, t)

init_camera_schedulers(m, interval, t) ==
    InitCamerasFrom(ApplyWrites(m, ClearSchedulersWrites), 1, interval, t)

operatorFrame == <<obs, job, prefs, queueVars, capture>>

\* TLX_OT_record._start_recording
record_start(capture_mode, session_dir, interval, timer_ok, idle_detection) ==
    /\ IF recording(mgr)
       THEN /\ Called("record_start", RetStatus("CANCELLED"))
            /\ UNCHANGED <<mgr, hist, scene>>
       ELSE LET started == ApplyWrites(mgr, StartWrites(capture_mode, session_dir, now))
                scheduled == IF capture_mode = "CAMERA_LIST"
                             THEN init_camera_schedulers(started, interval, now)
                             ELSE started
            IN IF ~timer_ok
               THEN /\ mgr' = ApplyWrites(scheduled, StopWrites)
                    /\ Called("record_start", RetStatus("CANCELLED"))
                    /\ hist' = ObserveClose(hist)
                    /\ UNCHANGED scene
               ELSE LET timed == ApplyWrites(scheduled, SetTimerWrites("timer1"))
                    IN /\ mgr' = IF idle_detection /\ ~timed.handler_installed
                                 THEN ApplyWrites(timed, SetHandlerInstalledWrites(TRUE))
                                 ELSE timed
                       /\ Called("record_start", RetStatus("RUNNING_MODAL"))
                       /\ hist' = ObserveStart(hist, RetNone, capture_mode, session_dir)
                       /\ scene' = [tlx_is_recording |-> TRUE, timer |-> "timer1"]
    /\ UNCHANGED <<now, concVars, operatorFrame>>

\* observer: the callbacks registered with the host's timers once
\* cancel_async_capture has returned; they stay registered
TimersCancelled(c) ==
    [c EXCEPT !.timers = [i \in 1..Len(@) |-> [@[i] EXCEPT !.cancelled = TRUE]]]

\* TLX_OT_record._stop_recording
record_stop ==
    /\ LET cancelled == IF CancelSkipped(mgr) THEN mgr
                        ELSE ApplyWrites(mgr, CancelWrites)
           stopped == IF StopSkipped(cancelled) THEN cancelled
                      ELSE ApplyWrites(cancelled, StopWrites)
       IN mgr' = IF stopped.handler_installed
                 THEN ApplyWrites(stopped, SetHandlerInstalledWrites(FALSE))
                 ELSE stopped
    /\ Called("record_stop", RetStatus("FINISHED"))
    /\ hist' = ObserveFinish(ObserveClose(hist))
    /\ scene' = [tlx_is_recording |-> FALSE, timer |-> NoneVal]
    /\ capture' = TimersCancelled(capture)
    /\ UNCHANGED <<now, concVars, obs, job, prefs, queueVars>>

NextOperator ==
    \/ Tick
    \/ \E mode \in Modes, i \in Intervals, ok \in BOOLEAN, idle \in BOOLEAN :
          record_start(mode, "/out/s1", i, ok, idle)
    \/ record_stop
    \/ pause_recording
    \/ mark_captured
    \/ \E c \in CameraNames : update_camera_due(c)
    \/ \E d \in Delays : schedule_window_async(d)

SpecOperator == Init /\ [][NextOperator]_vars

(* ------------------------- SpecInterval: the timer interval ------------ *)
(* capture/scheduler.py compute_min_timer_interval(scene, prefs), the      *)
(* interval of the host timer of a camera-list session, beside the         *)
(* interval init_camera_schedulers gives each camera.  Durations are in    *)
(* tenths of a second here, so that MIN_INTERVAL = 0.2 is a whole number.  *)
(* `prefs` holds the arguments: the default interval (the scene's when it  *)
(* has one, else the preference) and, per item of scene.tlx_cameras,       *)
(* use_interval_override and interval_override.                            *)
MIN_INTERVAL == 2
DEFAULT_INTERVAL == 20

DefaultIntervals == {1, MIN_INTERVAL, 5, DEFAULT_INTERVAL}
OverrideValues == {1, MIN_INTERVAL, 3, 30}
CameraItems ==
    [use_interval_override : BOOLEAN, interval_override : OverrideValues]

max(a, b) == IF a >= b THEN a ELSE b

\* lines 158-163: the loop over scene.tlx_cameras
RECURSIVE MinOverOverrides(_, _, _)
MinOverOverrides(items, i, min_interval) ==
    IF i > Len(items) THEN min_interval
    ELSE LET interval == items[i].interval_override
         IN IF /\ items[i].use_interval_override
               /\ interval >= MIN_INTERVAL /\ interval < min_interval
            THEN MinOverOverrides(items, i + 1, interval)
            ELSE MinOverOverrides(items, i + 1, min_interval)

compute_min_timer_interval_result(default_interval, items) ==
    max(MIN_INTERVAL,
        MinOverOverrides(items, 1, max(MIN_INTERVAL, default_interval)))

\* init_camera_schedulers lines 30-38 and 64-70: the interval a camera's
\* scheduler is created with
SchedulerInterval(default_interval, item) ==
    max(MIN_INTERVAL,
        IF item.use_interval_override THEN item.interval_override
        ELSE max(MIN_INTERVAL, default_interval))

InitInterval ==
    /\ mgr = InitMgr
    /\ now = 1
    /\ lastOp = "init" /\ ret = RetNone
    /\ hist = NoSession
    /\ pc = <<>> /\ lock = [owner |-> NoOwner, count |-> 0]
    /\ reg = <<>> /\ snap = <<>> /\ ops = <<>>
    /\ obs = NoWatch /\ job = NoJob /\ scene = NoScene
    /\ main_thread_id = NoMainThread /\ task_queue = NoTasks /\ ran = {} /\ qlog = <<>>
    /\ tpc = <<>>
    /\ capture = NoCapture
    /\ prefs \in [default_interval : DefaultIntervals,
                  cameras : [DOMAIN SceneCameras -> CameraItems]]

compute_min_timer_interval ==
    /\ Called("compute_min_timer_interval",
              RetInt(compute_min_timer_interval_result(prefs.default_interval,
                                                       prefs.cameras)))
    /\ UNCHANGED <<mgr, now, hist, concVars, extVars>>

NextInterval == compute_min_timer_interval

SpecInterval == InitInterval /\ [][NextInterval]_vars

(* ------------------------- SpecQueue: MainThreadQueue ------------------ *)
(* thread_safety.py: the module-level _MAIN_THREAD_ID, is_main_thread(),   *)
(* and MainThreadQueue.enqueue / process_tasks.  Thread 1 is the thread    *)
(* the host runs operators and timers on; the others are background        *)
(* threads.  _MAIN_THREAD_ID is read and written without a lock, so        *)
(* is_main_thread() is two steps, the test `is None` and the assignment in *)
(* _initialize_main_thread().  The PriorityQueue is heapq on a list of     *)
(* (priority_value, task) tuples under the queue's own mutex: a put or a   *)
(* get is one step.  QueuedTask is a dataclass without ordering, so        *)
(* comparing two tuples of equal priority_value raises TypeError.  The     *)
(* _stats counters are diagnostics and are left out.                       *)
HostMainThread == 1
Workers == 2..(NumWorkers + 1)
QueueThreads == {HostMainThread} \cup Workers

(* TaskPriority *)
NORMAL == 1
HIGH == 2
Priorities == {NORMAL, HIGH}
\* enqueue(timeout=...), in seconds
QueueTimeouts == {1}
\* process_tasks(max_tasks=10)
DefaultMaxTasks == 10

\* (priority_value, task) < (priority_value, task)
TupleLess(a, b) ==
    IF a.priority_value # b.priority_value
    THEN (IF a.priority_value < b.priority_value THEN "lt" ELSE "ge")
    ELSE "TypeError"

Swap(heap, i, j) == [heap EXCEPT ![i + 1] = heap[j + 1], ![j + 1] = heap[i + 1]]

\* heapq siftdown(heap, 0, pos); positions count from 0 as in the list
RECURSIVE SiftDown(_, _)
SiftDown(heap, pos) ==
    IF pos = 0 THEN [heap |-> heap, raised |-> FALSE]
    ELSE LET parentpos == (pos - 1) \div 2
             c == TupleLess(heap[pos + 1], heap[parentpos + 1])
         IN CASE c = "TypeError" -> [heap |-> heap, raised |-> TRUE]
              [] c = "lt" -> SiftDown(Swap(heap, pos, parentpos), parentpos)
              [] c = "ge" -> [heap |-> heap, raised |-> FALSE]

\* heapq.heappush: append, then sift the new item towards the root
HeapPush(heap, item) == SiftDown(Append(heap, item), Len(heap))

\* heapq siftup(heap, pos): the smaller child moves up until a leaf is
\* reached, then siftdown from there
RECURSIVE SiftUp(_, _)
SiftUp(heap, pos) ==
    IF pos >= Len(heap) \div 2 THEN SiftDown(heap, pos)
    ELSE LET childpos == 2 * pos + 1
             c == IF childpos + 1 < Len(heap)
                  THEN TupleLess(heap[childpos + 1], heap[childpos + 2])
                  ELSE "lt"
         IN CASE c = "TypeError" -> [heap |-> heap, raised |-> TRUE]
              [] c = "lt" -> SiftUp(Swap(heap, childpos, pos), childpos)
              [] c = "ge" -> SiftUp(Swap(heap, childpos + 1, pos), childpos + 1)

\* heapq.heappop: the last item replaces the root and is sifted
HeapPop(heap) ==
    LET lastelt == heap[Len(heap)]
        rest == SubSeq(heap, 1, Len(heap) - 1)
    IN IF rest = <<>>
       THEN [item |-> lastelt, heap |-> <<>>, raised |-> FALSE]
       ELSE LET r == SiftUp([rest EXCEPT ![1] = lastelt], 0)
            IN [item |-> rest[1], heap |-> r.heap, raised |-> r.raised]

\* QueuedTask.is_expired
is_expiredAnyTimeout(task, t) == t - task.created_at > task.timeout
is_expired(task, t) ==
    IF task.timeout <= 0 THEN FALSE ELSE t - task.created_at > task.timeout

\* what the action handed to enqueue does when it runs: it returns, it
\* raises, or it calls enqueue(..., wait=True) itself and returns the result
Funcs == {"returns", "raises", "enqueues"}

\* a thread that is in no call of this module; `running` holds the task
\* whose action the thread is executing inside process_tasks
QIdle ==
    [at |-> "idle", op |-> "", priority |-> 0, wait |-> FALSE, func |-> "returns",
     timeout |-> 0, task |-> 0, deadline |-> 0, inbox |-> <<>>, processed |-> 0,
     running |-> <<>>]

InitQueue ==
    /\ mgr = InitMgr
    /\ now = 1
    /\ lastOp = "init" /\ ret = RetNone
    /\ hist = NoSession
    /\ pc = <<>> /\ lock = [owner |-> NoOwner, count |-> 0]
    /\ reg = <<>> /\ snap = <<>> /\ ops = <<>>
    /\ obs = NoWatch /\ job = NoJob /\ prefs = NoPrefs /\ scene = NoScene
    /\ main_thread_id = NoMainThread
    /\ task_queue = NoTasks
    /\ ran = {} /\ qlog = <<>>
    /\ tpc = [t \in QueueThreads |-> QIdle]
    /\ capture = NoCapture

queueFrame == <<mgr, now, hist, concVars, obs, job, prefs, scene, capture>>

\* the call returns (or raises) to the code of thread t
QReturn(t, op, r) ==
    /\ Called(op, r)
    /\ tpc' = [tpc EXCEPT ![t] = QIdle]

\* thread_safety.register(), called by the host on its main thread
register ==
    /\ tpc[HostMainThread].at = "idle"
    /\ main_thread_id' = HostMainThread
    /\ Called("register", RetNone)
    /\ UNCHANGED <<task_queue, ran, qlog, tpc, queueFrame>>

\* MainThreadQueue.enqueue(func, priority=, wait=, timeout=) is called
enqueue(t, priority, wait, timeout, func) ==
    /\ tpc[t].at = "idle"
    /\ task_queue.task_counter < MaxTasks
    /\ tpc' = [tpc EXCEPT ![t] = [QIdle EXCEPT !.at = "is_main", !.op = "enqueue",
                                    !.priority = priority, !.wait = wait,
                                    !.timeout = timeout, !.func = func]]
    /\ UNCHANGED <<main_thread_id, task_queue, ran, qlog, lastOp, ret, queueFrame>>

\* MainThreadQueue.process_tasks() is called
process_tasks(t) ==
    /\ tpc[t].at = "idle"
    /\ tpc' = [tpc EXCEPT ![t] = [QIdle EXCEPT !.at = "is_main", !.op = "process_tasks"]]
    /\ UNCHANGED <<main_thread_id, task_queue, ran, qlog, lastOp, ret, queueFrame>>

\* MainThreadQueue.clear() is called
clear(t) ==
    /\ tpc[t].at = "idle"
    /\ tpc' = [tpc EXCEPT ![t] = [QIdle EXCEPT !.at = "is_main", !.op = "clear"]]
    /\ UNCHANGED <<main_thread_id, task_queue, ran, qlog, lastOp, ret, queueFrame>>

\* enqueue: `if is_main_thread(): return func(...)`
EnqueueInlineNever(answer) == FALSE
EnqueueInline(answer) == answer

\* where a call goes once is_main_thread() has answered; process_tasks and
\* clear asked through require_main_thread
AfterIsMain(t, answer) ==
    IF tpc[t].op = "enqueue"
    THEN /\ tpc' = [tpc EXCEPT ![t].at = IF EnqueueInline(answer) THEN "inline" ELSE "put"]
         /\ UNCHANGED <<lastOp, ret>>
    ELSE IF answer
         THEN /\ tpc' = [tpc EXCEPT ![t].at = "pop"]
              /\ UNCHANGED <<lastOp, ret>>
         ELSE QReturn(t, tpc[t].op, Raise("RuntimeError"))

\* is_main_thread(): `if _MAIN_THREAD_ID is None`, else the comparison
is_main_thread(t) ==
    /\ tpc[t].at = "is_main"
    /\ IF main_thread_id = NoMainThread
       THEN /\ tpc' = [tpc EXCEPT ![t].at = "init_main"]
            /\ UNCHANGED <<lastOp, ret>>
       ELSE AfterIsMain(t, t = main_thread_id)
    /\ UNCHANGED <<main_thread_id, task_queue, ran, qlog, queueFrame>>

\* is_main_thread(): `_initialize_main_thread(); return True`
initialize_main_thread(t) ==
    /\ tpc[t].at = "init_main"
    /\ main_thread_id' = t
    /\ AfterIsMain(t, TRUE)
    /\ UNCHANGED <<task_queue, ran, qlog, queueFrame>>

\* task.result_queue.put(...): the caller gets it if it is still waiting
Deliver(p, task, outcome) ==
    IF task.wait /\ p[task.by].at = "wait" /\ p[task.by].task = task.task_id
    THEN [p EXCEPT ![task.by].inbox = Append(p[task.by].inbox, outcome)]
    ELSE p

\* process_tasks: task.execute() has finished, the result is sent and the
\* loop goes on
ExecutedStopsOnFailure(p, t, task, outcome) ==
    IF outcome = "failed"
    THEN [p EXCEPT ![t] = QIdle]
    ELSE Deliver([p EXCEPT ![t] = [QIdle EXCEPT !.at = "pop", !.op = "process_tasks",
                                                 !.processed = p[t].processed + 1]],
                 task, outcome)
Executed(p, t, task, outcome) ==
    Deliver([p EXCEPT ![t] = [QIdle EXCEPT !.at = "pop", !.op = "process_tasks",
                                          !.processed = p[t].processed + 1]],
            task, outcome)

\* enqueue returns r (or raises it): to the code of thread t, or to the
\* action that called it while process_tasks was executing that action
EnqueueReturn(t, r) ==
    IF tpc[t].running = <<>>
    THEN QReturn(t, "enqueue", r)
    ELSE /\ tpc' = Executed(tpc, t, tpc[t].running[1],
                            IF r.kind = "None" THEN "ok" ELSE "failed")
         /\ UNCHANGED <<lastOp, ret>>

\* enqueue: `return func(*args, **kwargs)` on the calling thread
enqueue_inline(t) ==
    /\ tpc[t].at = "inline"
    /\ ran' = ran \cup {t}
    /\ EnqueueReturn(t, IF tpc[t].func = "raises" THEN Raise("Exception") ELSE RetNone)
    /\ UNCHANGED <<main_thread_id, task_queue, qlog, queueFrame>>

\* enqueue: result_queue.get(timeout=timeout) gives up at this time
GetDeadlineNever(t0, timeout) == MaxTime + 1
GetDeadline(t0, timeout) == t0 + timeout

\* enqueue: the task is created and put on the queue
enqueue_put(t) ==
    /\ tpc[t].at = "put"
    /\ LET task_id == task_queue.task_counter + 1
           task == [priority_value |-> 3 - tpc[t].priority, task_id |-> task_id,
                    by |-> t, wait |-> tpc[t].wait, func |-> tpc[t].func,
                    created_at |-> now, timeout |-> tpc[t].timeout]
           r == HeapPush(task_queue.queue, task)
       IN /\ task_queue' = [queue |-> r.heap, task_counter |-> task_id]
          /\ IF r.raised THEN EnqueueReturn(t, Raise("TypeError"))
             ELSE IF ~tpc[t].wait THEN EnqueueReturn(t, RetNone)
             ELSE /\ tpc' = [tpc EXCEPT ![t].at = "wait", ![t].task = task_id,
                                        ![t].deadline = GetDeadline(now, tpc[t].timeout)]
                  /\ UNCHANGED <<lastOp, ret>>
    /\ UNCHANGED <<main_thread_id, ran, qlog, queueFrame>>

\* enqueue: result_queue.get(timeout=timeout) returns a result
enqueue_result(t) ==
    /\ tpc[t].at = "wait" /\ tpc[t].inbox # <<>>
    /\ EnqueueReturn(t, IF Head(tpc[t].inbox) = "ok" THEN RetNone
                        ELSE Raise("RuntimeError"))
    /\ UNCHANGED <<main_thread_id, task_queue, ran, qlog, queueFrame>>

\* enqueue: result_queue.get raises queue.Empty after `timeout` seconds
enqueue_timeout(t) ==
    /\ tpc[t].at = "wait" /\ tpc[t].inbox = <<>>
    /\ now >= tpc[t].deadline
    /\ EnqueueReturn(t, Raise("TimeoutError"))
    /\ UNCHANGED <<main_thread_id, task_queue, ran, qlog, queueFrame>>

\* what became of a task that left the queue, as the observer notes it
Taken(task, what, t) == [task |-> task, what |-> what, by |-> t, at |-> now]

\* process_tasks: one round of the while loop; an action that calls enqueue
\* goes through the steps of enqueue before the round ends
process_tasks_pop(t) ==
    /\ tpc[t].at = "pop" /\ tpc[t].op = "process_tasks"
    /\ IF tpc[t].processed >= DefaultMaxTasks \/ task_queue.queue = <<>>
       THEN /\ QReturn(t, "process_tasks", RetInt(tpc[t].processed))
            /\ UNCHANGED <<task_queue, ran, qlog>>
       ELSE LET r == HeapPop(task_queue.queue)
                task == r.item
            IN /\ task_queue' = [task_queue EXCEPT !.queue = r.heap]
               /\ IF r.raised
                  THEN /\ QReturn(t, "process_tasks", Raise("TypeError"))
                       /\ qlog' = Append(qlog, Taken(task, "lost", t))
                       /\ UNCHANGED ran
                  ELSE IF is_expired(task, now)
                  THEN /\ tpc' = Executed(tpc, t, task, "expired")
                       /\ qlog' = Append(qlog, Taken(task, "expired", t))
                       /\ UNCHANGED <<ran, lastOp, ret>>
                  ELSE /\ ran' = ran \cup {t}
                       /\ qlog' = Append(qlog, Taken(task, "executed", t))
                       /\ IF task.func = "enqueues"
                          THEN tpc' = [tpc EXCEPT ![t].at = "is_main",
                                         ![t].op = "enqueue", ![t].wait = TRUE,
                                         ![t].priority = NORMAL,
                                         ![t].timeout = task.timeout,
                                         ![t].running = <<task>>]
                          ELSE tpc' = Executed(tpc, t, task,
                                         IF task.func = "raises" THEN "failed" ELSE "ok")
                       /\ UNCHANGED <<lastOp, ret>>
    /\ UNCHANGED <<main_thread_id, queueFrame>>

\* clear: one round of the while loop
clear_pop(t) ==
    /\ tpc[t].at = "pop" /\ tpc[t].op = "clear"
    /\ IF task_queue.queue = <<>>
       THEN /\ QReturn(t, "clear", RetInt(tpc[t].processed))
            /\ UNCHANGED <<task_queue, qlog>>
       ELSE LET r == HeapPop(task_queue.queue)
            IN /\ task_queue' = [task_queue EXCEPT !.queue = r.heap]
               /\ IF r.raised
                  THEN /\ QReturn(t, "clear", Raise("TypeError"))
                       /\ qlog' = Append(qlog, Taken(r.item, "lost", t))
                  ELSE /\ tpc' = [tpc EXCEPT ![t].processed = tpc[t].processed + 1]
                       /\ qlog' = Append(qlog, Taken(r.item, "cleared", t))
                       /\ UNCHANGED <<lastOp, ret>>
    /\ UNCHANGED <<main_thread_id, ran, queueFrame>>

TickQueue ==
    /\ now < MaxTime
    /\ now' = now + 1
    /\ Called("tick", RetNone)
    /\ UNCHANGED <<mgr, hist, concVars, obs, job, prefs, scene, queueVars, capture>>

NextQueue ==
    \/ TickQueue
    \/ register
    \/ \E t \in QueueThreads, p \in Priorities, w \in BOOLEAN,
          T \in QueueTimeouts : enqueue(t, p, w, T, "returns")
    \/ \E t \in QueueThreads : process_tasks(t)
    \/ \E t \in QueueThreads : is_main_thread(t)
    \/ \E t \in QueueThreads : initialize_main_thread(t)
    \/ \E t \in QueueThreads : enqueue_inline(t)
    \/ \E t \in QueueThreads : enqueue_put(t)
    \/ \E t \in QueueThreads : enqueue_result(t)
    \/ \E t \in QueueThreads : enqueue_timeout(t)
    \/ \E t \in QueueThreads : process_tasks_pop(t)

SpecQueue == InitQueue /\ [][NextQueue]_vars

(* ------------------------- SpecDrain: the queue once registered -------- *)
(* register() has run on the host's main thread before any other thread   *)
(* uses the queue, which is the use register() is written for.            *)
(* Background threads enqueue, the host's main thread drains.              *)
Registered == main_thread_id = HostMainThread

\* enqueue(timeout=...) of SpecDrain: 0 is a timeout as well
DrainTimeouts == {0, 1}

NextDrain ==
    \/ register
    \/ Registered /\ TickQueue
    \/ Registered /\ \E t \in Workers, p \in Priorities, w \in BOOLEAN,
                        T \in DrainTimeouts :
                            enqueue(t, p, w, T, "returns")
    \/ Registered /\ process_tasks(HostMainThread)
    \/ \E t \in QueueThreads : is_main_thread(t)
    \/ \E t \in Workers : enqueue_put(t)
    \/ \E t \in Workers : enqueue_result(t)
    \/ \E t \in Workers : enqueue_timeout(t)
    \/ process_tasks_pop(HostMainThread)

SpecDrain == InitQueue /\ [][NextDrain]_vars

(* ------------------------- SpecNested: enqueue on the main thread ------ *)
(* After register(), the host's main thread calls enqueue itself and       *)
(* drains; background threads queue actions that call enqueue(wait=True)   *)
(* when process_tasks executes them.                                       *)
NextNested ==
    \/ register
    \/ Registered /\ \E f \in {"returns", "raises"} :
                        enqueue(HostMainThread, NORMAL, TRUE, 1, f)
    \/ Registered /\ \E t \in Workers, p \in Priorities :
                        enqueue(t, p, TRUE, 1, "enqueues")
    \/ Registered /\ process_tasks(HostMainThread)
    \/ \E t \in QueueThreads : is_main_thread(t)
    \/ enqueue_inline(HostMainThread)
    \/ \E t \in Workers : enqueue_put(t)
    \/ \E t \in Workers : enqueue_result(t)
    \/ process_tasks_pop(HostMainThread)

SpecNested == InitQueue /\ [][NextNested]_vars

(* ------------------------- SpecWait: the blocking enqueue -------------- *)
(* After register(), background threads call enqueue(wait=True); the       *)
(* host's main thread drains, clears, or does neither.  A blocked          *)
(* result_queue.get(timeout=) ends no later than its deadline, so the      *)
(* clock does not pass the deadline of a thread that is still blocked.     *)
(* The statements of enqueue before the blocking get take no time on the   *)
(* clock's scale, and calls start early enough for the bounded clock to    *)
(* reach their deadline.                                                   *)
\* calls of enqueue in a run of SpecWait or of SpecExpiry
MaxWaits == 2
\* the background thread that makes them
Caller == HostMainThread + 1

TickWait ==
    /\ tpc[Caller].op = "enqueue" =>
            tpc[Caller].at = "wait" /\ now < tpc[Caller].deadline
    /\ TickQueue

NextWait ==
    \/ register
    \/ Registered /\ TickWait
    \/ Registered /\ \E T \in DrainTimeouts :
                        /\ now + T <= MaxTime
                        /\ task_queue.task_counter < MaxWaits
                        /\ enqueue(Caller, NORMAL, TRUE, T, "returns")
    \/ Registered /\ process_tasks(HostMainThread)
    \/ Registered /\ clear(HostMainThread)
    \/ \E t \in {HostMainThread, Caller} : is_main_thread(t)
    \/ enqueue_put(Caller)
    \/ enqueue_result(Caller)
    \/ enqueue_timeout(Caller)
    \/ process_tasks_pop(HostMainThread)
    \/ clear_pop(HostMainThread)

\* a blocked get returns when a result is there and gives up at its
\* deadline; a thread between two statements goes on to the next one
WaitFairness ==
    /\ WF_vars(enqueue_result(Caller))
    /\ WF_vars(enqueue_timeout(Caller))
    /\ WF_vars(is_main_thread(Caller))
    /\ WF_vars(enqueue_put(Caller))
    /\ WF_vars(Registered /\ TickWait)

SpecWait == InitQueue /\ [][NextWait]_vars /\ WaitFairness

(* ------------------------- SpecExpiry: tasks that wait in the queue ---- *)
(* After register(), one background thread enqueues tasks of the default   *)
(* priority with and without waiting, with a timeout of zero or of one     *)
(* second, while time passes; the host's main thread drains.               *)
\* the clock of SpecExpiry runs long enough for a timeout of one second,
\* set at any time up to MaxTime, to pass
TickExpiry ==
    /\ now < MaxTime + 2
    /\ now' = now + 1
    /\ Called("tick", RetNone)
    /\ UNCHANGED <<mgr, hist, concVars, obs, job, prefs, scene, queueVars, capture>>

NextExpiry ==
    \/ register
    \/ Registered /\ TickExpiry
    \/ Registered /\ \E w \in BOOLEAN, T \in DrainTimeouts :
                        /\ now <= MaxTime
                        /\ task_queue.task_counter < MaxWaits
                        /\ enqueue(Caller, NORMAL, w, T, "returns")
    \/ Registered /\ process_tasks(HostMainThread)
    \/ \E t \in {HostMainThread, Caller} : is_main_thread(t)
    \/ enqueue_put(Caller)
    \/ enqueue_result(Caller)
    \/ enqueue_timeout(Caller)
    \/ process_tasks_pop(HostMainThread)

SpecExpiry == InitQueue /\ [][NextExpiry]_vars

(* ------------------------- SpecResult: results of queued actions ------- *)
(* After register(), one background thread enqueues actions that return or *)
(* raise, waiting for the result or not; the host's main thread drains.    *)
NextResult ==
    \/ register
    \/ Registered /\ TickQueue
    \/ Registered /\ \E p \in Priorities, w \in BOOLEAN, f \in {"returns", "raises"} :
                        enqueue(Caller, p, w, 1, f)
    \/ Registered /\ process_tasks(HostMainThread)
    \/ \E t \in {HostMainThread, Caller} : is_main_thread(t)
    \/ enqueue_put(Caller)
    \/ enqueue_result(Caller)
    \/ enqueue_timeout(Caller)
    \/ process_tasks_pop(HostMainThread)

SpecResult == InitQueue /\ [][NextResult]_vars

(* ------------------------- SpecAffinity: who may drain and clear ------- *)
(* Any thread calls enqueue, process_tasks and clear, before or after the  *)
(* host has called register() on its main thread.                          *)
NextAffinity ==
    \/ register
    \/ \E t \in QueueThreads : enqueue(t, NORMAL, FALSE, 1, "returns")
    \/ \E t \in QueueThreads : process_tasks(t)
    \/ \E t \in QueueThreads : clear(t)
    \/ \E t \in QueueThreads : is_main_thread(t)
    \/ \E t \in QueueThreads : initialize_main_thread(t)
    \/ \E t \in QueueThreads : enqueue_inline(t)
    \/ \E t \in QueueThreads : enqueue_put(t)
    \/ \E t \in QueueThreads : process_tasks_pop(t)
    \/ \E t \in QueueThreads : clear_pop(t)

SpecAffinity == InitQueue /\ [][NextAffinity]_vars

(* ------------------------- SpecCapture: capture_window_async ----------- *)
(* capture/window.py on the host's main thread: capture_window_async       *)
(* schedules a request and registers _capture_callback with the host's     *)
(* timers; the host calls each registered callback once; operators start   *)
(* and stop the recording and cancel the request between callbacks.        *)
(* `stale` and `cancelled` are observers: a timer is marked once           *)
(* cancel_async_capture has returned after its registration.               *)

\* callbacks registered with bpy.app.timers at one time
MaxTimers == 2
\* what the screenshot of one capture_window call comes to
Shots == {"saved", "unchanged", "failed"}

AsyncState(m) == IF m.window_async_pending THEN "Pending" ELSE "Idle"

\* get_async_debug_info(): StateManager has no attribute _window_async
get_async_debug_info(m) == Raise("AttributeError")

\* capture_window(context, base_dir, force_save): the manager afterwards,
\* what the call returns, and whether a frame file was written
capture_window(m, force_save, shot, t) ==
    LET cooled == ApplyWrites(m, SetSuppressionWrites(1000, t))
    IN IF ~force_save /\ is_suppressed(m, t)
       THEN [mgr |-> m, ret |-> RetBool(FALSE), saved |-> FALSE]
       ELSE IF shot = "failed"
       THEN [mgr |-> m, ret |-> Raise("RuntimeError"), saved |-> FALSE]
       ELSE IF shot = "unchanged" /\ ~force_save
       THEN [mgr |-> cooled, ret |-> RetBool(FALSE), saved |-> FALSE]
       ELSE LET path == CHOOSE p \in ImagePaths : TRUE
                named == ApplyWrites(cooled, SetLastWindowImageWrites(path))
                marked == IF MarkApplies(named)
                          THEN ApplyWrites(named, MarkWrites(named.counter, t))
                          ELSE named
            IN [mgr |-> marked, ret |-> RetBool(marked.counter # m.counter),
                saved |-> TRUE]

CaptureBounded == mgr.counter < MaxFrames /\ capture.saved < MaxFrames

\* observer: capture_window called with base_dir while the counter was
\* `index` has written (or not) the file generate_filename names
Written(c, base_dir, index, saved) ==
    IF saved
    THEN [c EXCEPT !.saved = @ + 1, !.files = @ \cup {<<base_dir, index>>}]
    ELSE c

\* capture_window_async(context, base_dir, force_save) with async capture
\* enabled; timer_ok says whether bpy.app.timers.register succeeds
capture_window_async(base_dir, force_save, delay, timer_ok, shot) ==
    /\ capture.at = "idle" /\ Len(capture.timers) < MaxTimers
    /\ CaptureBounded
    /\ IF ScheduleRejected(mgr)
       THEN /\ Called("capture_window_async", RetBool(FALSE))
            /\ UNCHANGED <<mgr, hist, capture>>
       ELSE LET scheduled == ApplyWrites(mgr, ScheduleWrites(delay, now))
            IN IF timer_ok
               THEN /\ mgr' = scheduled
                    /\ hist' = ObserveSchedule(hist, RetBool(TRUE))
                    /\ capture' = [capture EXCEPT !.timers =
                          Append(@, [force_save |-> force_save, cancelled |-> FALSE,
                                     base_dir |-> base_dir])]
                    /\ Called("capture_window_async", RetBool(TRUE))
               ELSE LET r == capture_window(ApplyWrites(scheduled, CancelWrites),
                                            force_save, shot, now)
                    IN /\ mgr' = r.mgr
                       /\ hist' = IF r.mgr.counter # mgr.counter
                                  THEN ObserveMark(ObserveFinish(hist))
                                  ELSE ObserveFinish(hist)
                       /\ capture' = Written(capture, base_dir, mgr.counter, r.saved)
                       /\ Called("capture_window_async", r.ret)
    /\ UNCHANGED <<now, concVars, obs, job, prefs, scene, queueVars>>

\* the host calls a registered _capture_callback: mgr.start_window_capture()
timer_fires(i) ==
    /\ capture.at = "idle" /\ i \in 1..Len(capture.timers)
    /\ capture' = [capture EXCEPT
          !.timers = SubSeq(@, 1, i - 1) \o SubSeq(@, i + 1, Len(@)),
          !.at = IF capture.timers[i].force_save THEN "forced" ELSE "started",
          !.stale = capture.timers[i].cancelled,
          !.dir = capture.timers[i].base_dir]
    /\ mgr' = mgr
    /\ Called("start_window_capture", RetNone)
    /\ UNCHANGED <<now, hist, concVars, obs, job, prefs, scene, queueVars>>

\* _capture_callback: capture_window, then finish_window_capture
capture_callback(shot) ==
    /\ capture.at \in {"started", "forced"}
    /\ CaptureBounded
    /\ LET r == capture_window(mgr, capture.at = "forced", shot, now)
       IN /\ mgr' = ApplyWrites(r.mgr, FinishWrites)
          /\ hist' = IF r.mgr.counter # mgr.counter
                     THEN ObserveFinish(ObserveMark(hist))
                     ELSE ObserveFinish(hist)
          /\ capture' = [Written(capture, capture.dir, mgr.counter, r.saved)
                            EXCEPT !.at = "idle", !.stale = FALSE, !.dir = "",
                                   !.outcome = IF r.ret.kind = "bool"
                                               THEN "finished" ELSE "failed"]
    /\ Called("finish_window_capture", RetNone)
    /\ UNCHANGED <<now, concVars, obs, job, prefs, scene, queueVars>>

\* cancel_async_capture(), as called by unregister() and by operators
cancel_async_capture ==
    /\ capture.at = "idle"
    /\ IF CancelSkipped(mgr)
       THEN /\ mgr' = mgr
            /\ Called("cancel_async_capture", RetBool(FALSE))
       ELSE /\ mgr' = ApplyWrites(mgr, CancelWrites)
            /\ Called("cancel_async_capture", RetBool(TRUE))
    /\ hist' = ObserveFinish(hist)
    /\ capture' = [capture EXCEPT !.timers =
                      [i \in 1..Len(@) |-> [@[i] EXCEPT !.cancelled = TRUE]]]
    /\ UNCHANGED <<now, concVars, obs, job, prefs, scene, queueVars>>

NextCapture ==
    \/ capture.at = "idle" /\ Tick
    \/ \E f \in BOOLEAN, d \in Delays, ok \in BOOLEAN, s \in Shots :
          capture_window_async("/out/s1", f, d, ok, s)
    \/ \E i \in 1..MaxTimers : timer_fires(i)
    \/ \E s \in Shots : capture_callback(s)
    \/ cancel_async_capture
    \/ capture.at = "idle" /\ \E m \in Modes, d \in SessionDirs : start_recording(m, d)
    \/ capture.at = "idle" /\ stop_recording

SpecCapture == Init /\ [][NextCapture]_vars

(* ------------------------- SpecTick: the modal timer handler ----------- *)
(* operators/recording.py TLX_OT_record.modal: every TIMER event of the    *)
(* host reaches the handler, which captures in the mode of the session.    *)
(* capture/camera.py capture_cameras renders the cameras that are due;     *)
(* the host is in Object mode, prefs.camera_max_per_tick is its default 1, *)
(* and every item of scene.tlx_cameras is a camera.  `capture.saved`       *)
(* counts the frame files written, in either mode.                         *)

\* the frame files one capture_cameras call writes at most
\* (prefs.camera_max_per_tick, default)
MaxPerTick == 1

\* camera_indices[:max(1, max_per_tick)]
FirstDue(due) == SubSeq(due, 1, IF Len(due) < MaxPerTick THEN Len(due) ELSE MaxPerTick)

\* the loop of capture_cameras over the picked cameras: _render_camera,
\* then scheduler.update_camera_due, whatever the render came to
RECURSIVE RenderEach(_, _, _)
RenderEach(m, picked, t) ==
    IF picked = <<>> THEN m
    ELSE RenderEach(ApplyWrites(m, UpdateDueWrites(m, Head(picked), t)),
                    Tail(picked), t)

\* capture_cameras(context, base_dir, require_dirty): the manager
\* afterwards, what the call returns, and the number of files written
capture_cameras(m, require_dirty, idle_detection, round_robin, rendered, t) ==
    IF require_dirty /\ idle_detection /\ ~m.dirty
    THEN [mgr |-> m, ret |-> RetBool(FALSE), saved |-> 0]
    ELSE LET ignoring == ApplyWrites(m, SetIgnoreDepsgraphWrites(TRUE))
             due == GetDueResult(ignoring, SceneCameras, round_robin, t)
             asked == ApplyWrites(ignoring,
                         GetDueWrites(ignoring, SceneCameras, round_robin, t))
             picked == FirstDue(due)
             looped == RenderEach(asked, picked, t)
             any_captured == picked # <<>> /\ rendered
             clean == IF any_captured
                      THEN ApplyWrites(looped, SetDirtyWrites(FALSE))
                      ELSE looped
             finally == ApplyWrites(clean,
                           SetIgnoreDepsgraphWrites(FALSE)
                           \o SetSuppressionWrites(1000, t))
         IN [mgr |-> finally, ret |-> RetBool(any_captured),
             saved |-> IF any_captured THEN Len(picked) ELSE 0]

tickFrame == <<now, concVars, obs, job, prefs, scene, queueVars>>

\* the handler returns without a capture
ModalReturns(status) ==
    /\ Called("modal", RetStatus(status))
    /\ UNCHANGED <<mgr, hist, capture, tickFrame>>

\* _handle_window_tick with prefs.window_async_capture off: capture_window
\* at once; what it raises is logged
window_tick_sync(shot) ==
    /\ CaptureBounded
    /\ LET r == capture_window(mgr, FALSE, shot, now)
       IN /\ mgr' = r.mgr
          /\ hist' = IF r.mgr.counter # mgr.counter THEN ObserveMark(hist) ELSE hist
          /\ capture' = Written(capture, mgr.session_dir, mgr.counter, r.saved)
          /\ Called("capture_window", r.ret)
    /\ UNCHANGED tickFrame

\* _handle_camera_tick: the dirty check, then capture_cameras
camera_tick(idle_detection, round_robin, rendered) ==
    /\ CaptureBounded
    /\ LET r == capture_cameras(mgr, TRUE, idle_detection, round_robin,
                                rendered, now)
       IN /\ \A n \in DOMAIN r.mgr.camera_schedulers :
                 r.mgr.camera_schedulers[n].total_captures <= MaxCaptures
          /\ mgr' = r.mgr
          /\ capture' = [capture EXCEPT !.saved = @ + r.saved]
          /\ Called("capture_cameras", r.ret)
    /\ UNCHANGED <<hist, tickFrame>>

\* TLX_OT_record.modal on a TIMER event
modal(dir_exists, async_enabled, delay, timer_ok, shot, idle_detection, round_robin, rendered) ==
    /\ capture.at = "idle"
    /\ IF ~recording(mgr) THEN ModalReturns("FINISHED")
       ELSE IF paused(mgr) THEN ModalReturns("RUNNING_MODAL")
       ELSE IF ~dir_exists THEN record_stop
       ELSE IF mgr.capture_mode = "WINDOW"
       THEN IF async_enabled
            THEN capture_window_async(mgr.session_dir, FALSE, delay, timer_ok, shot)
            ELSE window_tick_sync(shot)
       ELSE camera_tick(idle_detection, round_robin, rendered)

\* state_manager.mark_scene_dirty, the depsgraph handler, while installed
mark_scene_dirty ==
    /\ mgr.handler_installed
    /\ mgr' = IF mgr.ignore_depsgraph \/ is_suppressed(mgr, now)
              THEN mgr
              ELSE ApplyWrites(mgr, SetDirtyWrites(TRUE))
    /\ Called("mark_scene_dirty", RetNone)
    /\ UNCHANGED <<hist, capture, tickFrame>>

NextTick ==
    \/ capture.at = "idle" /\ Tick
    \/ capture.at = "idle" /\
          \E mode \in Modes, ok \in BOOLEAN, idle \in BOOLEAN :
             record_start(mode, "/out/s1", 1, ok, idle)
    \/ capture.at = "idle" /\ record_stop
    \/ mgr.capture_mode = "WINDOW" /\
          \E dir_exists \in BOOLEAN, async_enabled \in BOOLEAN, ok \in BOOLEAN,
             s \in Shots :
                modal(dir_exists, async_enabled, 0, ok, s, TRUE, TRUE, TRUE)
    \/ mgr.capture_mode # "WINDOW" /\
          \E dir_exists \in BOOLEAN, idle \in BOOLEAN, rr \in BOOLEAN,
             rendered \in BOOLEAN :
                modal(dir_exists, TRUE, 0, TRUE, "saved", idle, rr, rendered)
    \/ \E i \in 1..MaxTimers : timer_fires(i)
    \/ \E s \in Shots : capture_callback(s)
    \/ capture.at = "idle" /\ mark_scene_dirty

SpecTick == Init /\ [][NextTick]_vars

(* ------------------------- SpecSession: the operators of a session ----- *)
(* The operators that begin, change and end a session, each run to its     *)
(* end on the host's main thread: TLX_OT_record, TLX_OT_pause_resume and   *)
(* TLX_OT_update_interval (operators/recording.py),                        *)
(* TLX_OT_force_reset_state (operators/utils_ops.py) and unregister()      *)
(* (__init__.py).  `scene.timer` is the window manager's live event timer  *)
(* of the add-on, "None" when there is none; `mgr.timer` is the handle the *)
(* manager stores.  `scene.tlx_is_recording` is the value the scene keeps  *)
(* for the flag; it is stored in the scene, so it outlives the add-on's    *)
(* registration.  register() (__init__.py), which runs before an operator *)
(* is available again after unregister(), finds the manager not recording *)
(* and changes neither the manager nor the scene.                          *)

\* wm.event_timer_add returns a handle that is not the stored one
FreshTimer(old) == IF old = "timer1" THEN "timer2" ELSE "timer1"

\* wm.event_timer_remove(mgr.timer) under `if mgr.timer:`; removing a
\* handle that is not live raises, which the callers log
TimerRemoved(m, sc) ==
    IF m.timer # NoneVal /\ sc.timer = m.timer
    THEN [sc EXCEPT !.timer = NoneVal]
    ELSE sc

sessionFrame == <<now, concVars, obs, job, prefs, queueVars>>

\* TLX_OT_pause_resume.execute
pause_resume(timer_ok) ==
    /\ IF ~recording(mgr)
       THEN /\ Called("pause_resume", RetStatus("CANCELLED"))
            /\ UNCHANGED <<mgr, scene>>
       ELSE IF ~paused(mgr)
       THEN /\ scene' = TimerRemoved(mgr, scene)
            /\ mgr' = IF PauseApplies(mgr) THEN ApplyWrites(mgr, PauseWrites)
                      ELSE mgr
            /\ Called("pause_resume", RetStatus("FINISHED"))
       ELSE IF ~timer_ok
       THEN /\ Called("pause_resume", RetStatus("CANCELLED"))
            /\ UNCHANGED <<mgr, scene>>
       ELSE LET timer == FreshTimer(mgr.timer)
                timed == ApplyWrites(mgr, SetTimerWrites(timer))
            IN /\ scene' = [scene EXCEPT !.timer = timer]
               /\ mgr' = IF ResumeApplies(timed)
                         THEN ApplyWrites(timed, ResumeWrites) ELSE timed
               /\ Called("pause_resume", RetStatus("FINISHED"))
    /\ UNCHANGED <<hist, capture, sessionFrame>>

\* TLX_OT_update_interval.execute
update_interval(timer_ok) ==
    /\ IF recording(mgr) /\ ~paused(mgr)
       THEN IF timer_ok
            THEN LET timer == FreshTimer(mgr.timer)
                 IN /\ scene' = [scene EXCEPT !.timer = timer]
                    /\ mgr' = ApplyWrites(mgr, SetTimerWrites(timer))
                    /\ Called("update_interval", RetStatus("FINISHED"))
            ELSE /\ scene' = TimerRemoved(mgr, scene)
                 /\ mgr' = mgr
                 /\ Called("update_interval", RetStatus("CANCELLED"))
       ELSE /\ Called("update_interval", RetStatus("FINISHED"))
            /\ UNCHANGED <<mgr, scene>>
    /\ UNCHANGED <<hist, capture, sessionFrame>>

\* TLX_OT_force_reset_state.execute
force_reset ==
    /\ LET cancelled == IF CancelSkipped(mgr) THEN mgr
                        ELSE ApplyWrites(mgr, CancelWrites)
           stopped == IF StopSkipped(cancelled) THEN cancelled
                      ELSE ApplyWrites(cancelled, StopWrites)
       IN mgr' = ApplyWrites(stopped, ResetWrites)
    /\ scene' = [TimerRemoved(mgr, scene) EXCEPT !.tlx_is_recording = FALSE]
    /\ capture' = TimersCancelled(capture)
    /\ hist' = ObserveFinish(ObserveClose(hist))
    /\ Called("force_reset", RetStatus("FINISHED"))
    /\ UNCHANGED sessionFrame

\* unregister() of the add-on: `mgr.timer = None` and
\* `mgr.handler_installed = False` assign to properties without a setter,
\* which ends the first block; capture.unregister() cancels the async
\* request and state_manager.unregister() calls StateManager.cleanup()
unregister ==
    /\ LET cancelled == IF CancelSkipped(mgr) THEN mgr
                        ELSE ApplyWrites(mgr, CancelWrites)
           stopped == IF recording(cancelled) /\ ~StopSkipped(cancelled)
                      THEN ApplyWrites(cancelled, StopWrites)
                      ELSE cancelled
       IN mgr' = ApplyWrites(stopped, ClearSchedulersWrites)
    /\ scene' = TimerRemoved(mgr, scene)
    /\ capture' = TimersCancelled(capture)
    /\ hist' = ObserveFinish(IF recording(mgr) THEN ObserveClose(hist) ELSE hist)
    /\ Called("unregister", RetNone)
    /\ UNCHANGED sessionFrame

NextSession ==
    \/ Tick
    \/ \E mode \in Modes, ok \in BOOLEAN, idle \in BOOLEAN :
          record_start(mode, "/out/s1", 1, ok, idle)
    \/ record_stop
    \/ \E ok \in BOOLEAN : pause_resume(ok)
    \/ \E ok \in BOOLEAN : update_interval(ok)
    \/ force_reset
    \/ unregister
    \/ mgr.capture_mode = "WINDOW" /\
          \E dir_exists \in BOOLEAN, s \in Shots :
             modal(dir_exists, FALSE, 0, TRUE, s, TRUE, TRUE, TRUE)
    \/ mgr.capture_mode # "WINDOW" /\
          \E dir_exists \in BOOLEAN, rendered \in BOOLEAN :
             modal(dir_exists, TRUE, 0, TRUE, "saved", TRUE, TRUE, rendered)

SpecSession == Init /\ [][NextSession]_vars

(* ------------------------- SpecForceReset: reset beside the queue ------ *)
(* The force-reset operator on the host's main thread while background    *)
(* threads have tasks waiting in the MainThreadQueue and the window       *)
(* capture has a request pending.                                         *)
NextForceReset ==
    \/ register
    \/ Registered /\ \E t \in Workers, p \in Priorities :
                        enqueue(t, p, FALSE, 0, "returns")
    \/ \E t \in Workers : is_main_thread(t)
    \/ \E t \in Workers : enqueue_put(t)
    \/ Registered /\ process_tasks(HostMainThread)
    \/ is_main_thread(HostMainThread)
    \/ process_tasks_pop(HostMainThread)
    \/ Registered /\ tpc[HostMainThread].at = "idle" /\
          \E mode \in Modes, ok \in BOOLEAN, idle \in BOOLEAN :
             record_start(mode, "/out/s1", 1, ok, idle)
    \/ Registered /\ tpc[HostMainThread].at = "idle" /\
          \E d \in Delays : schedule_window_async(d)
    \/ Registered /\ tpc[HostMainThread].at = "idle" /\ force_reset

SpecForceReset == InitQueue /\ [][NextForceReset]_vars

(* ------------------------- SpecFrames: the frame files of WINDOW mode --- *)
(* WINDOW sessions one after another, each in the folder                   *)
(* utils.get_session_folder names after the time of its start, with the    *)
(* ticks and the timer callbacks of SpecTick.  No two sessions start in    *)
(* the same second, so every session has a folder of its own.              *)

\* utils.get_session_folder: the dated folder, then strftime('%H%M%S')
get_session_folder(t) == "/out/" \o ToString(t)

NextFrames ==
    \/ capture.at = "idle" /\ Tick
    \/ capture.at = "idle" /\ mgr.start_time < now /\ \E ok \in BOOLEAN :
          record_start("WINDOW", get_session_folder(now), 1, ok, FALSE)
    \/ capture.at = "idle" /\ record_stop
    \/ \E dir_exists \in BOOLEAN, async_enabled \in BOOLEAN, ok \in BOOLEAN,
          s \in Shots :
             modal(dir_exists, async_enabled, 0, ok, s, TRUE, TRUE, TRUE)
    \/ \E i \in 1..MaxTimers : timer_fires(i)
    \/ \E s \in Shots : capture_callback(s)

SpecFrames == Init /\ [][NextFrames]_vars

(* ------------------------- SpecPending: the life of a request ---------- *)
(* WINDOW sessions with async capture on.  The host calls every callback   *)
(* registered with bpy.app.timers, and a callback that has begun runs to   *)
(* its end: both are weakly fair.  A tick asks for a capture only while    *)
(* the frames saved and the callbacks outstanding leave room for one more  *)
(* frame below MaxFrames.                                                  *)
Outstanding(c) == Len(c.timers) + (IF c.at = "idle" THEN 0 ELSE 1)

NextPending ==
    \/ capture.at = "idle" /\ Tick
    \/ capture.at = "idle" /\ \E ok \in BOOLEAN :
          record_start("WINDOW", "/out/s1", 1, ok, FALSE)
    \/ capture.at = "idle" /\ record_stop
    \/ capture.saved + Outstanding(capture) < MaxFrames /\
          \E ok \in BOOLEAN, s \in Shots :
             modal(TRUE, TRUE, 0, ok, s, TRUE, TRUE, TRUE)
    \/ \E i \in 1..MaxTimers : timer_fires(i)
    \/ \E s \in Shots : capture_callback(s)

PendingFairness ==
    /\ WF_vars(\E i \in 1..MaxTimers : timer_fires(i))
    /\ WF_vars(\E s \in Shots : capture_callback(s))

SpecPending == Init /\ [][NextPending]_vars /\ PendingFairness

(* ------------------------- SpecFailure: actions that raise ------------- *)
(* After register(), one background thread enqueues actions that return or *)
(* raise, at either priority, waiting for the result or not, and the       *)
(* host's main thread drains.  The clock stands still, so that no task     *)
(* expires and no wait times out.                                          *)
NextFailure ==
    \/ register
    \/ Registered /\ \E p \in Priorities, w \in BOOLEAN, f \in {"returns", "raises"} :
                        enqueue(Caller, p, w, 1, f)
    \/ Registered /\ process_tasks(HostMainThread)
    \/ \E t \in {HostMainThread, Caller} : is_main_thread(t)
    \/ enqueue_put(Caller)
    \/ enqueue_result(Caller)
    \/ process_tasks_pop(HostMainThread)

SpecFailure == InitQueue /\ [][NextFailure]_vars

(* ======================= properties ==================================== *)

(* C1 (SpecAsync): schedule_window_async returns True exactly when no      *)
(* accepted request is outstanding; a call made while one is outstanding   *)
(* returns False and changes no field; never more than one request is      *)
(* outstanding, and the pending flag says whether one is.                  *)
C1_ScheduleStep ==
    lastOp' = "schedule_window_async" =>
        /\ ret' = RetBool(hist.requests = 0)
        /\ hist.requests > 0 => mgr' = mgr
C1_OnePending ==
    /\ hist.requests <= 1
    /\ mgr.window_async_pending <=> hist.requests = 1
C1_ScheduleOnlyWhenIdle == []C1_OnePending /\ [][C1_ScheduleStep]_vars

\* a second schedule has just been turned down
C1_Witness ==
    /\ lastOp = "schedule_window_async" /\ ret = RetBool(FALSE)
    /\ hist.requests = 1 /\ mgr.window_async_pending
    /\ mgr.window_async_scheduled_time > 0

(* C2 (Spec): the recording property is true iff the state is Recording or *)
(* Paused, and the frame counter is 0 right after a start_recording that   *)
(* returned normally.                                                      *)
C2_RecordingIffActive ==
    /\ recording(mgr) <=> mgr.state \in {RECORDING, PAUSED}
    /\ recording(mgr) <=> hist.open
    /\ lastOp = "start_recording" /\ ret = RetNone => mgr.counter = 0

\* a paused session with frames: recording is still true
C2_Witness ==
    /\ mgr.state = PAUSED /\ recording(mgr) /\ hist.open
    /\ mgr.counter > 0 /\ mgr.start_time > 1

(* C3 (Spec): a step changes the lifecycle state only along                *)
(* Idle -start-> Recording, Recording -pause-> Paused,                     *)
(* Paused -resume-> Recording, {Recording, Paused} -stop/reset-> Idle.     *)
LegalEdge(from, op, to) ==
    \/ from = IDLE /\ op = "start_recording" /\ to = RECORDING
    \/ from = RECORDING /\ op = "pause_recording" /\ to = PAUSED
    \/ from = PAUSED /\ op = "resume_recording" /\ to = RECORDING
    \/ from \in {RECORDING, PAUSED} /\ op \in {"stop_recording", "reset"} /\ to = IDLE
C3_OnlyLegalEdges ==
    [][mgr'.state # mgr.state => LegalEdge(mgr.state, lastOp', mgr'.state)]_vars

\* a session that was paused and resumed
C3_Witness ==
    /\ lastOp = "resume_recording" /\ mgr.state = RECORDING
    /\ mgr.counter > 0 /\ mgr.last_capture_time > mgr.start_time

(* C4 (SpecGuard): start_recording called in Recording or Paused raises    *)
(* the already-recording RuntimeError and leaves every field unchanged.    *)
C4_StartWhileActiveRejected ==
    [][lastOp' = "start_recording" /\ mgr.state # IDLE =>
          ret' = Raise("RuntimeError") /\ mgr' = mgr]_vars

\* a rejected start in a paused session whose fields all differ from what
\* start_recording would assign
C4_Witness ==
    /\ lastOp = "start_recording" /\ ret = Raise("RuntimeError")
    /\ mgr.state = PAUSED /\ mgr.counter > 0 /\ ~mgr.dirty
    /\ mgr.rr_index # 0 /\ mgr.suppress_until # 0 /\ mgr.window_async_pending
    /\ mgr.last_capture_time # 0

(* C5 (Spec): while a session is open the frame counter equals the number  *)
(* of mark_captured calls made in it; a mark_captured call made when no    *)
(* session is open returns normally and changes no field.                  *)
C5_CounterIsMarks == hist.open => mgr.counter = hist.marks
C5_MarkOutsideSession ==
    lastOp' = "mark_captured" /\ ~hist.open => ret' = RetNone /\ mgr' = mgr
C5_MarkCaptured == []C5_CounterIsMarks /\ [][C5_MarkOutsideSession]_vars

\* a mark_captured after the stop of a session that had captured frames
C5_Witness ==
    /\ lastOp = "mark_captured" /\ ret = RetNone /\ ~hist.open
    /\ mgr.state = IDLE /\ mgr.counter = 0 /\ mgr.last_capture_time > 0

(* C6 (SpecConc): methods are atomic with respect to each other.  When no  *)
(* thread is inside a method, the fields are what the calls that returned  *)
(* imply: a session is active iff one was opened and not closed, and its   *)
(* frame counter equals the number of mark_captured calls that returned in *)
(* it (no lost update).  The dict a get_info call is about to return       *)
(* equals get_info of the fields at that moment (no torn read).            *)
Quiescent == \A t \in Threads : pc[t] = Idle
C6_MethodsAtomic ==
    /\ Quiescent =>
          /\ recording(mgr) <=> hist.open
          /\ mgr.counter = IF hist.open THEN hist.marks ELSE 0
    /\ \A t \in Threads :
          pc[t].op = "get_info" /\ pc[t].phase = "release" =>
              snap[t] = get_info(mgr)

\* two mark_captured calls have returned in one session and both threads
\* have made calls
C6_Witness ==
    /\ Quiescent /\ hist.open /\ hist.marks >= 2 /\ mgr.counter = hist.marks
    /\ \A t \in Threads : ops[t] >= 1

(* C7 (Spec): pause_recording only moves Recording to Paused and           *)
(* resume_recording only Paused to Recording; in any other state the call  *)
(* changes nothing; both return normally and touch no field but the state; *)
(* a pause right after a pause, or a resume right after a resume, changes  *)
(* nothing.                                                                *)
C7_PauseStep ==
    lastOp' = "pause_recording" =>
        /\ ret' = RetNone
        /\ mgr' = IF mgr.state = RECORDING THEN [mgr EXCEPT !.state = PAUSED] ELSE mgr
        /\ lastOp = "pause_recording" => mgr' = mgr
C7_ResumeStep ==
    lastOp' = "resume_recording" =>
        /\ ret' = RetNone
        /\ mgr' = IF mgr.state = PAUSED THEN [mgr EXCEPT !.state = RECORDING] ELSE mgr
        /\ lastOp = "resume_recording" => mgr' = mgr
C7_PauseResumeIdempotent == [][C7_PauseStep /\ C7_ResumeStep]_vars

\* a session with frames has just been paused
C7_Witness ==
    /\ lastOp = "pause_recording" /\ mgr.state = PAUSED
    /\ mgr.counter > 0 /\ mgr.timer # NoneVal

(* C8 as stated (Spec): stop_recording returns the final frame counter     *)
(* when called in Recording or Paused and 0 when called in Idle.           *)
C8_StopReturnsFinalCount ==
    [][lastOp' = "stop_recording" =>
          ret' = RetInt(IF mgr.state = IDLE THEN 0 ELSE mgr.counter)]_vars

(* C8 as amended (Spec): stop_recording returns no value (None) in every   *)
(* state; the final frame count of the session is the frame counter read   *)
(* before the call, which equals the number of mark_captured calls made in *)
(* the session, and the counter is 0 after the call.                       *)
C8_StopReturnsNone ==
    [][lastOp' = "stop_recording" =>
          /\ ret' = RetNone
          /\ hist.open => mgr.counter = hist.marks
          /\ mgr'.counter = 0]_vars

\* a session with frames has just been stopped
C8_Witness ==
    /\ lastOp = "stop_recording" /\ ret = RetNone /\ mgr.state = IDLE
    /\ mgr.counter = 0 /\ mgr.last_capture_time > 0 /\ mgr.start_time > 0

(* C9 (Spec): after stop_recording from Recording or Paused the state is   *)
(* Idle and mode, session location, frame counter, start time, last        *)
(* capture time and timer handle are all cleared.                          *)
SessionCleared(m) ==
    /\ m.state = IDLE /\ m.capture_mode = "" /\ m.session_dir = ""
    /\ m.counter = 0 /\ m.start_time = 0 /\ m.last_capture_time = 0
    /\ m.timer = NoneVal
C9_StopClearsSession ==
    [][lastOp' = "stop_recording" /\ mgr.state # IDLE => SessionCleared(mgr')]_vars

(* C10 (SpecSched): stop_recording leaves every camera scheduler and the   *)
(* handler-installed flag as they were, whatever state it is called in.    *)
C10_StopKeepsSchedulers ==
    [][lastOp' = "stop_recording" =>
          /\ mgr'.camera_schedulers = mgr.camera_schedulers
          /\ mgr'.handler_installed = mgr.handler_installed]_vars

\* a session was stopped with both cameras scheduled, one of them captured,
\* and the handler installed
C10_Witness ==
    /\ lastOp = "stop_recording" /\ mgr.state = IDLE /\ mgr.start_time > 0
    /\ DOMAIN mgr.camera_schedulers = CameraNames
    /\ \E c \in CameraNames : mgr.camera_schedulers[c].total_captures > 0
    /\ mgr.handler_installed

(* C11 (SpecReset): reset never raises and leaves every field of the       *)
(* StateManager at the value __init__ gave it, whatever state it is called *)
(* in.                                                                     *)
C11_ResetRestoresInit ==
    [][lastOp' = "reset" => ret' = RetNone /\ mgr' = InitMgr]_vars

(* C12 (Spec): in Idle no session exists (mode and session directory       *)
(* empty, frame counter 0); in Recording or Paused a session exists and    *)
(* its mode and directory are the arguments of the start_recording call    *)
(* that opened it; a start_recording call opens a session only when none   *)
(* is live.                                                                *)
C12_IdleHasNoSession ==
    mgr.state = IDLE =>
        /\ ~hist.open
        /\ mgr.capture_mode = "" /\ mgr.session_dir = "" /\ mgr.counter = 0
C12_ActiveHasSession ==
    mgr.state \in {RECORDING, PAUSED} =>
        /\ hist.open
        /\ mgr.capture_mode = hist.mode /\ mgr.session_dir = hist.dir
C12_OpensOnlyWhenNoneLive ==
    lastOp' = "start_recording" /\ ret' = RetNone => ~hist.open
C12_SessionIffActive ==
    /\ [](C12_IdleHasNoSession /\ C12_ActiveHasSession)
    /\ [][C12_OpensOnlyWhenNoneLive]_vars

\* a start_recording turned down while a second session, opened with other
\* arguments than the first, is paused with frames
C12_Witness ==
    /\ lastOp = "start_recording" /\ ret = Raise("RuntimeError")
    /\ mgr.state = PAUSED /\ mgr.counter > 0
    /\ mgr.session_dir = "/out/s2" /\ mgr.capture_mode = "CAMERA_LIST"
    /\ mgr.start_time > 1

(* C13 (SpecRR): round-robin polls of the fixed list made while every      *)
(* camera is due return exactly one camera each, and up to n polls in a    *)
(* row return the cameras in list order, cyclically, starting at the       *)
(* rotating index: n of them return every camera exactly once.             *)
C13_OnePerCallInRotation ==
    \A k \in DOMAIN obs.run :
        obs.run[k] = <<RRCameras[((obs.from + k - 1) % Len(RRCameras)) + 1]>>

\* three polls in a row with every camera due, the rotation having started
\* in the middle of the list, after a capture was marked
C13_Witness ==
    /\ lastOp = "get_due_cameras" /\ Len(obs.run) = Len(RRCameras)
    /\ obs.from = 1
    /\ \E c \in RRCameraSet : mgr.camera_schedulers[c].last_capture > 0

(* C14 (SpecRR): a round-robin poll looks at the candidates of its list    *)
(* cyclically from the rotating index, at most once each; it returns the   *)
(* first one that is due and sets the index to one past it modulo the      *)
(* length of the list; when none is due it returns the empty list and      *)
(* changes nothing.                                                        *)
C14_FirstDueFromIndex ==
    lastOp' = "get_due_cameras" =>
        LET l == obs'.list
            n == Len(l)
            dueAt == {k \in 0..(n - 1) :
                        CameraDue(mgr, l[((mgr.rr_index + k) % n) + 1], now)}
        IN IF dueAt = {}
           THEN ret' = RetList(<<>>) /\ mgr' = mgr
           ELSE LET k == CHOOSE k \in dueAt : \A j \in dueAt : k <= j
                    idx == (mgr.rr_index + k) % n
                IN /\ ret' = RetList(<<l[idx + 1]>>)
                   /\ mgr' = [mgr EXCEPT !.rr_index = (idx + 1) % n]
C14_RoundRobinScan == [][C14_FirstDueFromIndex]_vars

\* a poll of the two-camera list that passed over a camera not yet due
C14_Witness ==
    /\ lastOp = "get_due_cameras" /\ obs.list = <<"CamC", "CamA">>
    /\ ret = RetList(<<"CamC">>) /\ mgr.rr_index = 1
    /\ HasScheduler(mgr, "CamA") /\ ~CameraDue(mgr, "CamA", now)

(* C15 (SpecRR): with the fixed list of n cameras no due camera is         *)
(* starved: a camera that stays due is never passed over by n polls in a   *)
(* row, whatever the other cameras' due times and update_camera_due calls. *)
C15_NoStarvation ==
    \A c \in RRCameraSet : obs.wait[c] <= Len(RRCameras) - 1

\* a due camera has been passed over twice while captures of the others
\* were marked
C15_Witness ==
    /\ \E c \in RRCameraSet :
          /\ obs.wait[c] = Len(RRCameras) - 1
          /\ \E d \in RRCameraSet \ {c} :
                HasScheduler(mgr, d) /\ mgr.camera_schedulers[d].last_capture > 0
    /\ lastOp = "get_due_cameras"

(* C16 (SpecRR): update_camera_due(A) at time t sets A's next_due to       *)
(* t + interval, its last_capture to t and adds one to total_captures; a   *)
(* poll returns no camera earlier than interval after its last capture;    *)
(* with three cameras due and the index at 0 a poll returns the first      *)
(* camera and, after update_camera_due of it, a poll at the same time      *)
(* returns the second.                                                     *)
C16_MarkDoneStep ==
    lastOp' = "update_camera_due" /\ HasScheduler(mgr, obs'.arg) =>
        LET a == obs'.arg
            old == mgr.camera_schedulers[a]
        IN /\ ret' = RetNone
           /\ mgr' = [mgr EXCEPT !.camera_schedulers[a] =
                        [old EXCEPT !.next_due = now + old.interval,
                                    !.last_capture = now,
                                    !.total_captures = old.total_captures + 1]]
C16_NotBeforeInterval ==
    lastOp' = "get_due_cameras" =>
        \A c \in RRCameraSet :
            InList(c, ret'.list) /\ mgr.camera_schedulers[c].last_capture > 0 =>
                now >= mgr.camera_schedulers[c].last_capture
                         + mgr.camera_schedulers[c].interval
C16_Scenario ==
    /\ obs.scen = 1 => ret = RetList(<<RRCameras[1]>>)
    /\ obs.scen = 3 => ret = RetList(<<RRCameras[2]>>)
C16_MarkDoneDefers ==
    []C16_Scenario /\ [][C16_MarkDoneStep /\ C16_NotBeforeInterval]_vars

\* the second poll of the scenario has been made, the first camera's
\* capture marked
C16_Witness ==
    /\ obs.scen = 3 /\ lastOp = "get_due_cameras"
    /\ mgr.camera_schedulers[RRCameras[1]].total_captures = 1
    /\ mgr.camera_schedulers[RRCameras[1]].next_due > now

(* C17 (SpecInit): init_camera_schedulers replaces the schedule set as a   *)
(* whole: a get_due_cameras or update_camera_due call made by another      *)
(* thread while it is in progress finds either the set it started from or  *)
(* the complete new one, never an empty or partly filled set.              *)
C17_InitReplacesAtomically ==
    [][job.phase = "loop" /\ lastOp' \in {"get_due_cameras", "update_camera_due"} =>
          DOMAIN mgr.camera_schedulers \in {job.old, SceneCameraSet}]_vars

(* C18 (SpecOperator): the camera schedulers are created by the start of a *)
(* camera-list session and the stop operation clears them all: after a     *)
(* stop the set is empty.                                                  *)
C18_StopClearsSchedulers ==
    [][lastOp' = "record_stop" => DOMAIN mgr'.camera_schedulers = {}]_vars

(* C19 (SpecInterval): compute_min_timer_interval returns the smallest of  *)
(* the default interval and every camera's override, each raised to        *)
(* MIN_INTERVAL when below it, so the timer interval is never longer than  *)
(* the interval of any camera's scheduler.                                 *)
C19_Clamped ==
    {max(MIN_INTERVAL, prefs.default_interval)} \cup
    {max(MIN_INTERVAL, prefs.cameras[i].interval_override) :
        i \in {j \in DOMAIN prefs.cameras : prefs.cameras[j].use_interval_override}}
C20_ActionsOnMainThreadOnly == \A t \in ran : t = HostMainThread

(* C21 (SpecDrain): process_tasks executes the pending tasks in priority   *)
(* order, and tasks of equal priority in the order in which they were       *)
(* enqueued, for every sequence of enqueues from background threads: every  *)
(* enqueue of a background thread leaves its task pending without raising,  *)
(* and every task process_tasks takes is the first pending one in the order *)
(* (priority, enqueue order).                                               *)
C21_Before(a, b) ==
    \/ a.priority_value < b.priority_value
    \/ a.priority_value = b.priority_value /\ a.task_id <= b.task_id
C21_FirstPending(queue) ==
    CHOOSE a \in {queue[i] : i \in 1..Len(queue)} :
        \A i \in 1..Len(queue) : C21_Before(a, queue[i])
C21_PutRaised ==
    /\ task_queue'.task_counter > task_queue.task_counter
    /\ lastOp' = "enqueue" /\ ret'.kind = "TypeError"
C21_DrainTakes ==
    /\ tpc[HostMainThread].op = "process_tasks"
    /\ Len(task_queue'.queue) < Len(task_queue.queue)
C21_PriorityThenEnqueueOrder ==
    [][/\ ~C21_PutRaised
       /\ C21_DrainTakes =>
            /\ Len(qlog') = Len(qlog) + 1
            /\ qlog'[Len(qlog')].what # "lost"
            /\ qlog'[Len(qlog')].task = C21_FirstPending(task_queue.queue)]_vars

(* C22 (SpecNested): enqueue called on the main thread runs the action     *)
(* synchronously before returning and adds nothing to the queue, so an     *)
(* action that calls enqueue(wait=True) while process_tasks is executing   *)
(* it completes without deadlock: the main thread is never at the put or   *)
(* the wait of enqueue, no step of its enqueue changes the queue, its      *)
(* enqueue ends by running the action on the main thread, and an action    *)
(* that enqueued from inside process_tasks finishes with success.          *)
C22_MainNeverQueues ==
    \A t \in QueueThreads :
        t = main_thread_id => tpc[t].at \notin {"put", "wait"}
C22_EnqueueEnds(t) ==
    /\ tpc[t].op = "enqueue" /\ tpc'[t].op # "enqueue"
C22_InlineStep ==
    \A t \in QueueThreads :
        (t = main_thread_id /\ tpc[t].op = "enqueue") =>
            /\ tpc'[t] # tpc[t] => task_queue' = task_queue
            /\ C22_EnqueueEnds(t) =>
                 /\ tpc[t].at = "inline" /\ t \in ran'
                 /\ tpc[t].running = <<>> =>
                      /\ lastOp' = "enqueue"
                      /\ ret' = (IF tpc[t].func = "raises" THEN Raise("Exception")
                                 ELSE RetNone)
                 /\ tpc[t].running # <<>> =>
                      /\ tpc'[t].at = "pop"
                      /\ tpc'[t].processed = tpc[t].processed + 1
                      /\ LET task == tpc[t].running[1]
                         IN (tpc[task.by].at = "wait" /\ tpc[task.by].task = task.task_id)
                                => tpc'[task.by].inbox = <<"ok">>
C22_MainThreadEnqueueInline == [][C22_InlineStep /\ C22_MainNeverQueues']_vars
\* a waiting background thread got the success of an action that called
\* enqueue(wait=True) inside process_tasks
C22_Witness ==
    /\ \E i \in 1..Len(qlog) :
          /\ qlog[i].task.func = "enqueues" /\ qlog[i].what = "executed"
          /\ qlog[i].by = HostMainThread
          /\ tpc[qlog[i].task.by].task = qlog[i].task.task_id
          /\ tpc[qlog[i].task.by].inbox = <<"ok">>
    /\ tpc[HostMainThread].at = "pop" /\ tpc[HostMainThread].processed > 0

(* C23 (SpecWait): enqueue(wait=True, timeout=T) from a background thread  *)
(* always returns or raises within T: while the caller is blocked the      *)
(* clock is at most T past the creation of its task, a caller that leaves  *)
(* the wait without a result raises TimeoutError (also when process_tasks  *)
(* is never called or clear() removed the task), and every call of         *)
(* enqueue comes back to its caller.                                       *)
C23_Tasks ==
    {task_queue.queue[i] : i \in 1..Len(task_queue.queue)}
        \cup {qlog[i].task : i \in 1..Len(qlog)}
C23_WaitWithinTimeout ==
    \A t \in {Caller} :
        tpc[t].at = "wait" =>
            \E k \in C23_Tasks :
                /\ k.task_id = tpc[t].task /\ k.by = t
                /\ k.timeout = tpc[t].timeout
                /\ now <= k.created_at + k.timeout
C23_NoResultRaisesTimeout ==
    \A t \in {Caller} :
        (tpc[t].at = "wait" /\ tpc[t].inbox = <<>> /\ tpc'[t].at # "wait")
            => lastOp' = "enqueue" /\ ret' = Raise("TimeoutError")
C23_EnqueueBoundedByTimeout ==
    /\ []C23_WaitWithinTimeout
    /\ [][C23_NoResultRaisesTimeout]_vars
    /\ \A t \in {Caller} : (tpc[t].op = "enqueue") ~> (tpc[t].at = "idle")
\* the only task was removed by clear() before its timeout, and its caller
\* raised TimeoutError
C23_Witness ==
    /\ lastOp = "enqueue" /\ ret = Raise("TimeoutError")
    /\ task_queue.task_counter = 1 /\ Len(qlog) = 1
    /\ qlog[1].what = "cleared" /\ qlog[1].task.wait
    /\ qlog[1].at < qlog[1].task.created_at + qlog[1].task.timeout

(* C24 (SpecExpiry): for every task popped by process_tasks whose age      *)
(* (now - created_at) exceeds its timeout, for every timeout value,        *)
(* process_tasks does not execute the action and delivers a Timeout        *)
(* failure to its waiter if it has one; all other popped tasks are         *)
(* executed.                                                               *)
C24_Age(e) == e.at - e.task.created_at
C24_Popped == {i \in 1..Len(qlog) : qlog[i].what # "lost"}
C24_ExpiredForEveryTimeout ==
    \A i \in C24_Popped :
        qlog[i].what = (IF C24_Age(qlog[i]) > qlog[i].task.timeout
                        THEN "expired" ELSE "executed")
(* C24 as amended: a popped task is skipped, with the Timeout failure      *)
(* delivered to its waiter if it has one, exactly when its timeout is      *)
(* positive and its age exceeds it; a task whose timeout is zero or        *)
(* negative never expires, and every popped task that is not skipped is    *)
(* executed.                                                               *)
C24_Expires(e) == e.task.timeout > 0 /\ C24_Age(e) > e.task.timeout
C24_PopStep ==
    (tpc[HostMainThread].op = "process_tasks" /\ Len(qlog') = Len(qlog) + 1
        /\ qlog'[Len(qlog')].what # "lost") =>
        LET e == qlog'[Len(qlog')]
            by == e.task.by
            waiting == e.task.wait /\ tpc[by].at = "wait"
                         /\ tpc[by].task = e.task.task_id
        IN IF C24_Expires(e)
           THEN /\ e.what = "expired" /\ ran' = ran
                /\ waiting => tpc'[by].inbox = <<"expired">>
           ELSE /\ e.what = "executed" /\ HostMainThread \in ran'
                /\ waiting => tpc'[by].inbox = <<"ok">>
C24_ExpiredWhenPositiveTimeout == [][C24_PopStep]_vars
\* one task with timeout 0 was executed at a positive age, and a task
\* whose positive timeout had passed was skipped with its caller waiting
C24_Witness ==
    /\ \E i \in C24_Popped :
          /\ qlog[i].task.timeout = 0 /\ C24_Age(qlog[i]) > 0
          /\ qlog[i].what = "executed"
    /\ \E i \in C24_Popped :
          /\ C24_Expires(qlog[i]) /\ qlog[i].what = "expired"
          /\ tpc[qlog[i].task.by].task = qlog[i].task.task_id
          /\ tpc[qlog[i].task.by].inbox = <<"expired">>

(* C25 (SpecResult): every task popped by process_tasks that has a waiting *)
(* caller gets exactly one result delivered on its channel (success,       *)
(* failure with the action's exception, or the expiry Timeout), and a      *)
(* failed action's exception reaches the blocking caller as RuntimeError   *)
(* ("Task ... failed") instead of being swallowed.                         *)
C25_Pending(q) == {q.queue[i] : i \in 1..Len(q.queue)}
C25_Removed == CHOOSE k \in C25_Pending(task_queue) : k \notin C25_Pending(task_queue')
C25_DrainRemoves ==
    /\ tpc[HostMainThread].op = "process_tasks"
    /\ Len(task_queue'.queue) < Len(task_queue.queue)
C25_Waiting(k) == k.wait /\ tpc[k.by].at = "wait" /\ tpc[k.by].task = k.task_id
C25_Outcome(k) ==
    IF is_expired(k, now) THEN "expired"
    ELSE IF k.func = "raises" THEN "failed" ELSE "ok"
C25_Step ==
    /\ (C25_DrainRemoves /\ C25_Waiting(C25_Removed)) =>
            tpc'[C25_Removed.by].inbox = <<C25_Outcome(C25_Removed)>>
    /\ \A t \in QueueThreads :
          (tpc[t].at = "wait" /\ tpc[t].inbox # <<>> /\ tpc'[t].at = "idle") =>
              /\ lastOp' = "enqueue"
              /\ ret' = (IF tpc[t].inbox = <<"ok">> THEN RetNone
                         ELSE Raise("RuntimeError"))
C25_ExactlyOneResult == [][C25_Step]_vars

(* C26 (SpecAffinity): process_tasks and clear called from a thread other  *)
(* than the main thread fail fast with the thread-affinity RuntimeError    *)
(* and remove or execute no task: no step of such a call changes the       *)
(* queue or runs an action, and the call ends by raising RuntimeError.     *)
C26_Step ==
    \A t \in Workers :
        (tpc[t].op \in {"process_tasks", "clear"} /\ tpc'[t] # tpc[t]) =>
            /\ task_queue' = task_queue /\ ran' = ran /\ qlog' = qlog
            /\ tpc'[t].at = "idle" =>
                  lastOp' = tpc[t].op /\ ret' = Raise("RuntimeError")
C26_OffMainThreadFailsFast == [][C26_Step]_vars

(* C27 (SpecAffinity): clear() on the main thread removes every pending    *)
(* task without executing any of them: no step of clear runs an action,    *)
(* clear returns the number of removed tasks with the queue empty, and a   *)
(* removed task is never executed afterwards.                              *)
C27_Step ==
    \A t \in QueueThreads :
        (t = main_thread_id /\ tpc[t].op = "clear" /\ tpc'[t] # tpc[t]) =>
            /\ ran' = ran
            /\ tpc'[t].at = "idle" =>
                  /\ lastOp' = "clear" /\ ret' = RetInt(tpc[t].processed)
                  /\ task_queue'.queue = <<>>
C27_RemovedNeverRuns ==
    \A i, j \in 1..Len(qlog) :
        (qlog[i].what = "cleared" /\ i # j) =>
            qlog[j].task.task_id # qlog[i].task.task_id
C27_ClearRemovesAll == [][C27_Step /\ C27_RemovedNeverRuns']_vars

(* C28 (SpecCapture): the async controller follows Idle -> Pending ->      *)
(* Executing -> Idle: the start_window_capture() of a callback moves it    *)
(* from Pending to Executing and changes nothing in any other state, so    *)
(* that a second callback finds the controller Executing.                  *)
C28_Begins == capture.at = "idle" /\ capture'.at # "idle"
C28_BeginMovesToExecuting ==
    [][C28_Begins =>
        AsyncState(mgr') = (IF AsyncState(mgr) = "Pending" THEN "Executing"
                            ELSE AsyncState(mgr))]_vars

(* C29 (SpecCapture): finish_window_capture(success, error) returns the    *)
(* controller to Idle from Pending or Executing and never raises; when     *)
(* success is false it records last_error and increments attempt_count,    *)
(* which get_async_debug_info() reports.                                   *)
C29_Finishes == capture.at # "idle" /\ capture'.at = "idle"
C29_FinishReturnsToIdleAndRecords ==
    [][C29_Finishes =>
        /\ lastOp' = "finish_window_capture" /\ ret' = RetNone
        /\ AsyncState(mgr') = "Idle"
        /\ capture'.outcome = "failed" =>
              /\ get_async_debug_info(mgr').kind = "dict"
              /\ get_async_debug_info(mgr').val = get_async_debug_info(mgr).val + 1]_vars

(* C30 (SpecCapture): after cancel_async_capture() has returned, the       *)
(* capture callback that was registered before the cancel performs no      *)
(* capture when the host timer fires later: it saves no frame, and changes *)
(* neither the frame counter nor the last image.                           *)
C30_StaleCallbackEnds ==
    /\ capture.at # "idle" /\ capture.stale /\ capture'.at = "idle"
C30_CancelledCallbackCapturesNothing ==
    [][C30_StaleCallbackEnds =>
        /\ capture'.saved = capture.saved
        /\ mgr'.counter = mgr.counter
        /\ mgr'.last_window_image = mgr.last_window_image]_vars

(* C31: a capture made while a session is live calls mark_captured once   *)
(* for every frame file it writes and not at all when it writes none, in  *)
(* WINDOW and in CAMERA_LIST mode alike, so the step raises the frame     *)
(* counter by exactly the number of files written.                        *)
C31_CaptureOps ==
    {"capture_window", "capture_window_async", "capture_cameras",
     "finish_window_capture"}
C31_Step ==
    (lastOp' \in C31_CaptureOps /\ recording(mgr))
        => mgr'.counter - mgr.counter = capture'.saved - capture.saved
C31_CounterCountsSavedFrames == [][C31_Step]_vars

(* C32: the force-reset operator, run while the state is Recording, an    *)
(* async capture is pending and tasks wait in the dispatch queue, leaves  *)
(* the state Idle, the async controller Idle and the dispatch queue empty. *)
C32_Before ==
    /\ mgr.state = RECORDING
    /\ AsyncState(mgr) = "Pending"
    /\ task_queue.queue # <<>>
C32_Step ==
    (lastOp' = "force_reset" /\ C32_Before)
        => /\ mgr'.state = IDLE
           /\ AsyncState(mgr') = "Idle"
           /\ task_queue'.queue = <<>>
C32_ForceResetClearsEverything == [][C32_Step]_vars

(* C33: a capture request without force_save made while                   *)
(* now < suppress_until is skipped in WINDOW and in CAMERA_LIST mode: the  *)
(* step writes no frame file and leaves the frame counter alone; every    *)
(* capture that writes a file leaves a suppression window behind it; and  *)
(* a successful start leaves suppress_until at 0.                          *)
C33_Request ==
    \/ lastOp' \in {"capture_window", "capture_window_async", "capture_cameras"}
    \/ lastOp' = "finish_window_capture" /\ capture.at = "started"
C33_SkippedWhileSuppressed ==
    (C33_Request /\ is_suppressed(mgr, now))
        => /\ capture'.saved = capture.saved
           /\ mgr'.counter = mgr.counter
C33_SetAfterCapture ==
    capture'.saved > capture.saved => is_suppressed(mgr', now')
C33_ClearedByStart ==
    (lastOp' = "record_start" /\ ret' = RetStatus("RUNNING_MODAL"))
        => mgr'.suppress_until = 0
C33_SuppressionSkipsEveryMode ==
    [][C33_SkippedWhileSuppressed /\ C33_SetAfterCapture /\ C33_ClearedByStart]_vars

(* C34: when the start operator has called start_recording and the timer  *)
(* (or the camera schedule) then fails, the operator ends with the state  *)
(* Idle, no timer handle stored and scene.tlx_is_recording false, and a   *)
(* start attempt that follows is accepted.                                *)
C34_FailedAfterStart ==
    /\ lastOp' = "record_start"
    /\ ~recording(mgr)
    /\ ret' = RetStatus("CANCELLED")
C34_Step ==
    C34_FailedAfterStart
        => /\ mgr'.state = IDLE
           /\ mgr'.timer = NoneVal
           /\ scene'.timer = NoneVal
           /\ ~scene'.tlx_is_recording
           /\ ~StartRejected(mgr')
C34_FailedStartEndsIdle == [][C34_Step]_vars

(* C35: after any operator has completed (start, stop, pause/resume,      *)
(* update interval, force reset), the state Recording (not Paused)        *)
(* implies that a live host timer exists and that the stored timer handle *)
(* is that timer; a timer that cannot be created again in update-interval *)
(* or resume never leaves the state Recording without a live timer.       *)
C35_Operators ==
    {"record_start", "record_stop", "pause_resume", "update_interval",
     "force_reset"}
C35_RecordingHasLiveTimer ==
    (lastOp \in C35_Operators /\ mgr.state = RECORDING)
        => /\ scene.timer # NoneVal
           /\ mgr.timer = scene.timer

(* C36: after every operation that ends a session (the stop operator,     *)
(* force reset, the tick that finds the session directory missing,        *)
(* StateManager.cleanup on unregister) scene.tlx_is_recording equals      *)
(* StateManager.recording.                                                *)
C36_Enders == {"record_stop", "force_reset", "unregister"}
C36_Step ==
    (lastOp' \in C36_Enders /\ recording(mgr))
        => scene'.tlx_is_recording = recording(mgr')
C36_FlagFollowsManager == [][C36_Step]_vars

(* C37: a capture callback scheduled during a session that has since been *)
(* stopped never changes the frame counter of the session that follows,   *)
(* and a live session never has two capture callbacks outstanding.         *)
C37_Outstanding ==
    Len(capture.timers) + (IF capture.at = "idle" THEN 0 ELSE 1)
C37_OldCallbackEnds ==
    /\ capture.at # "idle" /\ capture.stale
    /\ lastOp' = "finish_window_capture"
    /\ recording(mgr)
C37_OneOutstanding == recording(mgr) => C37_Outstanding <= 1
C37_OldCallbackLeavesNewSession ==
    /\ []C37_OneOutstanding
    /\ [][C37_OldCallbackEnds => mgr'.counter = mgr.counter]_vars

(* C38: within one session directory every saved window frame has its own *)
(* index: the indices used are 0, 1, 2, ... without a gap, and no capture, *)
(* the one whose callback ends after stop_recording has reset the counter *)
(* included, writes a file that was written before.                       *)
C38_NoGap ==
    \A f \in capture.files :
        \A j \in 0..(f[2] - 1) : <<f[1], j>> \in capture.files
C38_NewFile == capture'.saved > capture.saved => capture'.files # capture.files
C38_DistinctFrameIndices == []C38_NoGap /\ [][C38_NewFile]_vars

(* C39: once schedule() has succeeded the pending flag is cleared again,  *)
(* given that the host fires the registered callback or refuses the       *)
(* registration: the callback ends in finish whether the capture saved,   *)
(* skipped or raised, and a refused registration is cancelled before the  *)
(* synchronous capture.                                                   *)
C39_Pending == mgr.window_async_pending
C39_CallbackFinishes ==
    lastOp' = "finish_window_capture" => ~C39_Pending'
C39_RefusedCancels ==
    (lastOp' = "capture_window_async" /\ ~C39_Pending
        /\ capture'.timers = capture.timers) => ~C39_Pending'
C39_PendingEventuallyCleared ==
    /\ C39_Pending ~> ~C39_Pending
    /\ [][C39_CallbackFinishes /\ C39_RefusedCancels]_vars
C39_Witness ==
    /\ lastOp = "finish_window_capture"
    /\ capture.outcome = "failed"
    /\ ~C39_Pending
    /\ hist.open

(* C40: an exception raised by a queued action stays with that action:    *)
(* only the caller waiting for that task is told of the failure, nothing  *)
(* is raised out of process_tasks, and the same drain goes on to take the *)
(* next task of the queue and execute it.                                 *)
C40_Last(log) == log[Len(log)]
C40_Takes == Len(qlog') = Len(qlog) + 1
C40_Fails ==
    /\ C40_Takes
    /\ C40_Last(qlog').what = "executed"
    /\ C40_Last(qlog').task.func = "raises"
C40_Waiting(k) == k.wait /\ tpc[k.by].at = "wait" /\ tpc[k.by].task = k.task_id
C40_Confined ==
    C40_Fails =>
        LET k == C40_Last(qlog').task
        IN /\ lastOp' = lastOp /\ ret' = ret
           /\ tpc'[HostMainThread].at = "pop"
           /\ tpc'[HostMainThread].op = "process_tasks"
           /\ tpc'[HostMainThread].processed = tpc[HostMainThread].processed + 1
           /\ \A w \in Workers :
                 tpc'[w] = IF w = k.by /\ C40_Waiting(k)
                           THEN [tpc[w] EXCEPT !.inbox = Append(tpc[w].inbox, "failed")]
                           ELSE tpc[w]
\* the drain has just executed a task that raised
C40_AfterFailure ==
    /\ tpc[HostMainThread].at = "pop" /\ tpc[HostMainThread].op = "process_tasks"
    /\ tpc[HostMainThread].processed >= 1
    /\ qlog # <<>>
    /\ C40_Last(qlog).what = "executed" /\ C40_Last(qlog).task.func = "raises"
C40_GoesOn ==
    (C40_AfterFailure /\ tpc'[HostMainThread] # tpc[HostMainThread]) =>
        IF task_queue.queue = <<>>
        THEN lastOp' = "process_tasks"
             /\ ret' = RetInt(tpc[HostMainThread].processed)
        ELSE /\ C40_Takes
             /\ C40_Last(qlog').task = HeapPop(task_queue.queue).item
             /\ C40_Last(qlog').what = "executed" =>
                   /\ tpc'[HostMainThread].processed =
                         tpc[HostMainThread].processed + 1
                   /\ HostMainThread \in ran'
C40_FailureConfinedToTask == [][C40_Confined /\ C40_GoesOn]_vars
C40_Witness ==
    /\ Len(qlog) >= 2
    /\ qlog[Len(qlog) - 1].what = "executed"
    /\ qlog[Len(qlog) - 1].task.func = "raises"
    /\ ~qlog[Len(qlog) - 1].task.wait
    /\ C40_Last(qlog).what = "executed"
    /\ C40_Last(qlog).task.func = "returns"
    /\ C40_Last(qlog).task.wait
    /\ tpc[HostMainThread].processed >= 2
    /\ tpc[Caller].inbox = <<"ok">>

=============================================================================
